---- MODULE Spec2Model ----
(***************************************************************************)
(* Vector Collection Store of the RAG backend: MilvusService (existence    *)
(* cache, provisioning, load, insert, search, drop) and                    *)
(* CollectionManagerService (metadata kept as records of a reserved        *)
(* collection, metadata cache, auto-registration, delete).                 *)
(*                                                                         *)
(* Every async method is a sequence of steps, one per stretch of code that *)
(* runs between two remote calls; a process holds a stack of labels (the   *)
(* awaited callers below the running method), so that concurrent requests  *)
(* interleave exactly at the awaits.  A remote call answers according to   *)
(* the state of the vector database at that moment, or fails.              *)
(***************************************************************************)
EXTENDS Integers, Sequences, FiniteSets, TLC

\* ------------------------------------------------------------------ bounds
MaxOps == 2
MaxFaults == 3
MaxTicks == 2
MaxTextLen == 4
MaxChunkSize == 3
MaxChunks == 6
MaxTopK == 3
MaxPerCollection == 2
MaxResults == 3
MaxRerankTopK == 3
MaxContextLength == 12
MaxRetries == 3
MaxQueryLen == 3

\* ------------------------------------------------------- program constants
CACHE_TTL == 30000
maxRetries == 3
METADATA_COLLECTION == "collections_metadata"
VECTOR_DIM == 384
EMBEDDING_DIM == 384
RAG_TOP_K == 5
RerankTopK == 5
minLength == 1
metadataCollectionName == "_collections_metadata"

\* the clock advances by half a TTL per tick: an entry is fresh after one
\* tick and expired after two (the comparison with the TTL is strict)
TickMs == CACHE_TTL \div 2

usersCollectionName == "memory_users"
Procs == {"p1", "p2"}
UserNames == {"docs"}
Names == UserNames \cup {METADATA_COLLECTION, metadataCollectionName}

VARIABLES
    now,                    \* Date.now()
    remoteCollections,      \* vector database: the collections that exist
    remoteIndexed,          \* vector database: collections with their index
    remoteLoaded,           \* vector database: collections loaded for serving
    metaRecords,            \* vector database: records of METADATA_COLLECTION
    collectionExistsCache,  \* MilvusService.collectionExistsCache (a Map)
    metadataCache,          \* CollectionManagerService.metadataCache (a Map)
    proc,                   \* per request: stack of labels and locals
    nOps,                   \* requests started
    faults,                 \* remote failures so far
    collectionsMetadataRecords,  \* database: records of metadataCollectionName
    collectionsMetadataCache,    \* CollectionsMetadataService.metadataCache
    lastIndex,              \* promptInjectionPatterns: lastIndex of SQLInjection
    memoryUsers             \* vector database: records of usersCollectionName

vars == << now, remoteCollections, remoteIndexed, remoteLoaded, metaRecords,
           collectionExistsCache, metadataCache, proc, nOps, faults,
           collectionsMetadataRecords, collectionsMetadataCache, lastIndex,
           memoryUsers >>

\* the state of CollectionsMetadataService, of the patterns of the
\* guardrails and of the memory of users
ragVars == << collectionsMetadataRecords, collectionsMetadataCache, lastIndex,
             memoryUsers >>

remoteVars == << remoteCollections, remoteIndexed, remoteLoaded, metaRecords >>

\* ---------------------------------------------------------------- values
\* CollectionMetadata (name, tags, vectorDim, status); NoMeta stands for null
NoMeta == [name |-> "", tags |-> "none", vectorDim |-> 0, status |-> "none"]

NoCall == [op |-> "none", name |-> "", err |-> "none", exists |-> FALSE,
           calls |-> 0, creates |-> 0, wrote |-> -1]

\* the arguments and locals of a call of the chunker
NoChunking ==
    [text |-> << >>, separator |-> << >>, chunkSize |-> 0, overlap |-> 0,
     parts |-> << >>, currentChunk |-> << >>, startIndex |-> 0,
     chunks |-> << >>]

\* the arguments and locals of a query: the collections still to search,
\* topKPerCollection, the configured defaultTopK, the answer of the last
\* search, allResults, the sources returned, and the collections that were
\* searched and that were skipped; the question, maxContextLength, the
\* searchResults and contextChunks of a single query, the chunks handed to
\* the completion call, the answers collected and the calls made so far
NoQuery ==
    [collections |-> << >>, todo |-> << >>, topKPerCollection |-> 0,
     defaultTopK |-> 0, results |-> << >>, allResults |-> << >>,
     sources |-> << >>, searched |-> << >>, skipped |-> << >>,
     question |-> << >>, maxContextLength |-> 0, searchResults |-> << >>,
     contextChunks |-> << >>, completed |-> << >>, answers |-> << >>,
     stages |-> << >>]

\* Partial<CollectionMetadata> with no field
NoUpdates == [f \in {} |-> ""]

\* the arguments and locals of a call of the reranker: the strategy, query,
\* results, topK, the two weights and the similarity threshold (fractions),
\* the embedding of the query, the value returned and whether the catch
\* block ran
NoRerank ==
    [strategy |-> "none", query |-> << >>, results |-> << >>, topK |-> 0,
     keywordWeight |-> [n |-> 0, d |-> 1],
     semanticWeight |-> [n |-> 0, d |-> 1],
     similarityThreshold |-> [n |-> 0, d |-> 1],
     queryEmbedding |-> << >>, returned |-> << >>, threw |-> FALSE]

\* the options and locals of a call of withRetryAndTimeout: the attempt
\* counter of the loop, the outcome of every call of fn made so far, the
\* delays waited, lastError, and how the call ended ("returned" with value,
\* or "thrown" with lastError)
NoRetry ==
    [maxRetries |-> 0, timeoutMs |-> 0, initialDelayMs |-> 0, attempt |-> 0,
     outcomes |-> << >>, waited |-> << >>, elapsed |-> 0,
     lastError |-> [kind |-> "unknown", attempt |-> -1],
     ended |-> "none", value |-> -1]

IdleProc ==
    [pc |-> << >>, op |-> "none", arg |-> "", cname |-> "", attempt |-> 0,
     resp |-> "none", err |-> "none", exists |-> FALSE, calls |-> 0,
     creates |-> 0, wrote |-> -1, meta |-> NoMeta, doc |-> NoMeta,
     key |-> "", todo |-> << >>, acc |-> << >>, list |-> << >>,
     listed |-> {}, checkedAt |-> 0, during |-> {}, prev |-> NoCall,
     updates |-> NoUpdates, ck |-> NoChunking, q |-> NoQuery,
     rr |-> NoRerank, embedding |-> 0, inserts |-> 0, ingest |-> "none",
     after |-> {}, loaded |-> {}, searches |-> 0, upserts |-> 0,
     wr |-> NoRetry]

\* Map.set / Map.delete
MapSet(m, k, v) == (k :> v) @@ m
MapDelete(m, k) == [x \in DOMAIN m \ {k} |-> m[x]]

\* ---------------------------------------------------------- control flow
At(p, l) == proc[p].pc # << >> /\ Head(proc[p].pc) = l
Idle(p) == proc[p].pc = << >>
Goto(r, l) == [r EXCEPT !.pc = << l >> \o Tail(@)]
Call(r, entry, cont) == [r EXCEPT !.pc = << entry, cont >> \o Tail(@)]
Pop(r) == [r EXCEPT !.pc = Tail(@)]
Put(p, r) == proc' = [proc EXCEPT ![p] = r]

\* the requests in flight that run the same method for the same collection
InFlight(o, n) ==
    {q \in Procs : proc[q].pc # << >> /\ proc[q].op = o /\ proc[q].arg = n}

\* a request starts: the summary of the previous request of this caller is
\* kept in prev, and the requests it overlaps with in during
Begin(p, o, n, entry) ==
    /\ Idle(p)
    /\ nOps < MaxOps
    /\ nOps' = nOps + 1
    /\ Put(p, [IdleProc EXCEPT
                !.pc = entry, !.op = o, !.arg = n, !.cname = n,
                !.during = InFlight(o, n),
                !.prev = [op |-> proc[p].op, name |-> proc[p].arg,
                          err |-> proc[p].err, exists |-> proc[p].exists,
                          calls |-> proc[p].calls, creates |-> proc[p].creates,
                          wrote |-> proc[p].wrote]])

\* ------------------------------------------------------------------ clock
Tick ==
    /\ now + TickMs <= MaxTicks * TickMs
    /\ now' = now + TickMs
    /\ UNCHANGED << remoteCollections, remoteIndexed, remoteLoaded, metaRecords,
                    collectionExistsCache, metadataCache, proc, nOps, faults >>
    /\ UNCHANGED ragVars

\* ------------------------------------------- MilvusService.collectionExists
\* the cache test with the comparison of the age turned round
CacheHitInverted(cache, n, t) ==
    n \in DOMAIN cache /\ t - cache[n].timestamp > CACHE_TTL

\* the cache test of collectionExists
CacheHit(cache, n, t) ==
    n \in DOMAIN cache /\ t - cache[n].timestamp < CACHE_TTL

\* a catch block that answers "does not exist" when nothing is cached
CatchOutcomeGuessFalse(cache, n) ==
    IF n \in DOMAIN cache
    THEN [err |-> "none", exists |-> cache[n].exists]
    ELSE [err |-> "none", exists |-> FALSE]

\* a catch block that always rethrows
CatchOutcomeRethrow(cache, n) == [err |-> "check", exists |-> FALSE]

\* the catch block of collectionExists: the cached value if there is one,
\* else the error
CatchOutcome(cache, n) ==
    IF n \in DOMAIN cache
    THEN [err |-> "none", exists |-> cache[n].exists]
    ELSE [err |-> "check", exists |-> FALSE]

\* number of the attempt after which withRetryAndTimeout gives up
LastAttempt == maxRetries - 1

CE_Cache(p) ==
    /\ At(p, "ce_cache")
    /\ LET r == proc[p]
           n == r.cname
       IN IF CacheHit(collectionExistsCache, n, now)
          THEN Put(p, Pop([r EXCEPT !.exists = collectionExistsCache[n].exists,
                                    !.err = "none", !.checkedAt = now]))
          ELSE Put(p, Goto([r EXCEPT !.attempt = 0, !.checkedAt = now],
                           "ce_call"))
    /\ UNCHANGED << now, remoteVars, collectionExistsCache, metadataCache,
                    nOps, faults >>
    /\ UNCHANGED ragVars

\* one attempt: client.hasCollection under withTimeout
CE_Call(p) ==
    /\ At(p, "ce_call")
    /\ LET r == proc[p]
           n == r.cname
       IN \/ /\ Put(p, Goto([r EXCEPT !.calls = @ + 1,
                                      !.resp = IF n \in remoteCollections
                                               THEN "true" ELSE "false"],
                            "ce_resp"))
             /\ UNCHANGED faults
          \/ /\ faults < MaxFaults
             /\ faults' = faults + 1
             /\ Put(p, Goto([r EXCEPT !.calls = @ + 1, !.resp = "fail"],
                            "ce_resp"))
    /\ UNCHANGED << now, remoteVars, collectionExistsCache, metadataCache, nOps >>
    /\ UNCHANGED ragVars

\* the attempt settles: cache and return, retry after the backoff delay, or
\* give up and run the catch block
CE_Resp(p) ==
    /\ At(p, "ce_resp")
    /\ LET r == proc[p]
           n == r.cname
       IN IF r.resp # "fail"
          THEN /\ collectionExistsCache' =
                     MapSet(collectionExistsCache, n,
                            [exists |-> (r.resp = "true"), timestamp |-> now])
               /\ Put(p, Pop([r EXCEPT !.exists = (r.resp = "true"),
                                       !.err = "none", !.wrote = now]))
          ELSE IF r.attempt < LastAttempt
          THEN /\ Put(p, Goto([r EXCEPT !.attempt = @ + 1], "ce_call"))
               /\ UNCHANGED collectionExistsCache
          ELSE /\ LET c == CatchOutcome(collectionExistsCache, n)
                  IN Put(p, Pop([r EXCEPT !.err = c.err, !.exists = c.exists]))
               /\ UNCHANGED collectionExistsCache
    /\ UNCHANGED << now, remoteVars, metadataCache, nOps, faults >>
    /\ UNCHANGED ragVars

\* MilvusService.clearCollectionExistsCache(name)
ClearCollectionExistsCache(p, n) ==
    /\ Begin(p, "clearCollectionExistsCache", n, << >>)
    /\ collectionExistsCache' = MapDelete(collectionExistsCache, n)
    /\ UNCHANGED << now, remoteVars, metadataCache, faults >>
    /\ UNCHANGED ragVars

\* ------------------------------------ MilvusService.ensureCollectionExists
EN_Start(p) ==
    /\ At(p, "en_start")
    /\ Put(p, Call(proc[p], "ce_cache", "en_checked"))
    /\ UNCHANGED << now, remoteVars, collectionExistsCache, metadataCache,
                    nOps, faults >>
    /\ UNCHANGED ragVars

\* what ensureCollectionExists does with the answer of collectionExists
NeedsCreate(err, exists) == err = "none" /\ ~exists

EN_Checked(p) ==
    /\ At(p, "en_checked")
    /\ LET r == proc[p]
       IN IF NeedsCreate(r.err, r.exists)
          THEN Put(p, Goto(r, "cc_create"))
          ELSE Put(p, Pop(r))
    /\ UNCHANGED << now, remoteVars, collectionExistsCache, metadataCache,
                    nOps, faults >>
    /\ UNCHANGED ragVars

\* MilvusService.createCollection: client.createCollection.  The database
\* creates the collection; asked for one that exists it either accepts the
\* request as a no-op or rejects it as already existing.
CC_Create(p) ==
    /\ At(p, "cc_create")
    /\ LET r == proc[p]
           n == r.cname
       IN \/ /\ remoteCollections' = remoteCollections \cup {n}
             /\ Put(p, Goto([r EXCEPT !.creates = @ + 1], "cc_index"))
             /\ UNCHANGED faults
          \/ /\ n \in remoteCollections
             /\ Put(p, Pop([r EXCEPT !.creates = @ + 1,
                                     !.err = "already_exists"]))
             /\ UNCHANGED << remoteCollections, faults >>
          \/ /\ faults < MaxFaults
             /\ faults' = faults + 1
             /\ Put(p, Pop([r EXCEPT !.creates = @ + 1, !.err = "create"]))
             /\ UNCHANGED remoteCollections
    /\ UNCHANGED << now, remoteIndexed, remoteLoaded, metaRecords,
                    collectionExistsCache, metadataCache, nOps >>
    /\ UNCHANGED ragVars

\* MilvusService.createIndex: client.createIndex
CC_Index(p) ==
    /\ At(p, "cc_index")
    /\ LET r == proc[p]
           n == r.cname
       IN \/ /\ n \in remoteCollections
             /\ remoteIndexed' = remoteIndexed \cup {n}
             /\ Put(p, Pop([r EXCEPT !.err = "none"]))
             /\ UNCHANGED faults
          \/ /\ n \notin remoteCollections
             /\ Put(p, Pop([r EXCEPT !.err = "index"]))
             /\ UNCHANGED << remoteIndexed, faults >>
          \/ /\ faults < MaxFaults
             /\ faults' = faults + 1
             /\ Put(p, Pop([r EXCEPT !.err = "index"]))
             /\ UNCHANGED remoteIndexed
    /\ UNCHANGED << now, remoteCollections, remoteLoaded, metaRecords,
                    collectionExistsCache, metadataCache, nOps >>
    /\ UNCHANGED ragVars

\* ------------------------------------ MilvusService.ensureCollectionLoaded
\* isCollectionLoaded: client.getLoadingProgress; an error counts as "not
\* loaded".  loaded keeps the collections for which ensureCollectionLoaded
\* has returned in the running operation of the service
EL_Check(p) ==
    /\ At(p, "el_check")
    /\ LET r == proc[p]
           n == r.cname
       IN \/ /\ n \in remoteLoaded
             /\ Put(p, Pop([r EXCEPT !.err = "none",
                                     !.loaded = @ \cup {n}]))
             /\ UNCHANGED faults
          \/ /\ n \notin remoteLoaded
             /\ Put(p, Goto(r, "el_load"))
             /\ UNCHANGED faults
          \/ /\ faults < MaxFaults
             /\ faults' = faults + 1
             /\ Put(p, Goto(r, "el_load"))
    /\ UNCHANGED << now, remoteVars, collectionExistsCache, metadataCache, nOps >>
    /\ UNCHANGED ragVars

\* loadCollection: client.loadCollection
EL_Load(p) ==
    /\ At(p, "el_load")
    /\ LET r == proc[p]
           n == r.cname
       IN \/ /\ n \in remoteCollections
             /\ remoteLoaded' = remoteLoaded \cup {n}
             /\ Put(p, Pop([r EXCEPT !.err = "none",
                                     !.loaded = @ \cup {n}]))
             /\ UNCHANGED faults
          \/ /\ n \notin remoteCollections
             /\ Put(p, Pop([r EXCEPT !.err = "load"]))
             /\ UNCHANGED << remoteLoaded, faults >>
          \/ /\ faults < MaxFaults
             /\ faults' = faults + 1
             /\ Put(p, Pop([r EXCEPT !.err = "load"]))
             /\ UNCHANGED remoteLoaded
    /\ UNCHANGED << now, remoteCollections, remoteIndexed, metaRecords,
                    collectionExistsCache, metadataCache, nOps >>
    /\ UNCHANGED ragVars

\* unloadCollection: client.releaseCollection
UL_Release(p) ==
    /\ At(p, "ul_release")
    /\ LET r == proc[p]
           n == r.cname
       IN \/ /\ n \in remoteCollections
             /\ remoteLoaded' = remoteLoaded \ {n}
             /\ Put(p, Pop([r EXCEPT !.err = "none"]))
             /\ UNCHANGED faults
          \/ /\ n \notin remoteCollections
             /\ Put(p, Pop([r EXCEPT !.err = "unload"]))
             /\ UNCHANGED << remoteLoaded, faults >>
          \/ /\ faults < MaxFaults
             /\ faults' = faults + 1
             /\ Put(p, Pop([r EXCEPT !.err = "unload"]))
             /\ UNCHANGED remoteLoaded
    /\ UNCHANGED << now, remoteCollections, remoteIndexed, metaRecords,
                    collectionExistsCache, metadataCache, nOps >>
    /\ UNCHANGED ragVars

\* an operation that goes on to its data call without ensureCollectionLoaded
EnsuredThenData(r, cont) ==
    IF r.err # "none" THEN Pop(r) ELSE Goto(r, cont)

\* insertDocuments, search and upsertDocuments after ensureCollectionExists:
\* its error is thrown on, otherwise ensureCollectionLoaded is awaited
EnsuredThenLoad(r, cont) ==
    IF r.err # "none" THEN Pop(r) ELSE Call(r, "el_check", cont)

\* -------------------------------------------- MilvusService.insertDocuments
ID_Start(p) ==
    /\ At(p, "id_start")
    /\ Put(p, Call([proc[p] EXCEPT !.loaded = {}], "en_start", "id_ensured"))
    /\ UNCHANGED << now, remoteVars, collectionExistsCache, metadataCache,
                    nOps, faults >>
    /\ UNCHANGED ragVars

ID_Ensured(p) ==
    /\ At(p, "id_ensured")
    /\ Put(p, EnsuredThenLoad(proc[p], "id_loaded"))
    /\ UNCHANGED << now, remoteVars, collectionExistsCache, metadataCache,
                    nOps, faults >>
    /\ UNCHANGED ragVars

\* the records of a collection after client.insert of doc
Inserted(records, doc) == Append(records, doc)

\* client.insert: the record of a reserved collection is appended; inserts
\* counts the calls of client.insert
ID_Loaded(p) ==
    /\ At(p, "id_loaded")
    /\ LET r == proc[p]
           n == r.cname
       IN IF r.err # "none"
          THEN /\ Put(p, Pop(r))
               /\ UNCHANGED << metaRecords, collectionsMetadataRecords,
                               memoryUsers, faults >>
          ELSE \/ /\ n \in remoteCollections
                  /\ metaRecords' = IF n = METADATA_COLLECTION
                                    THEN Inserted(metaRecords, r.doc)
                                    ELSE metaRecords
                  /\ memoryUsers' = IF n = usersCollectionName
                                    THEN Inserted(memoryUsers, r.doc)
                                    ELSE memoryUsers
                  /\ collectionsMetadataRecords' =
                        IF n = metadataCollectionName
                        THEN Inserted(collectionsMetadataRecords, r.doc)
                        ELSE collectionsMetadataRecords
                  /\ Put(p, Pop([r EXCEPT !.err = "none", !.inserts = @ + 1]))
                  /\ UNCHANGED faults
               \/ /\ n \notin remoteCollections
                  /\ Put(p, Pop([r EXCEPT !.err = "insert", !.inserts = @ + 1]))
                  /\ UNCHANGED << metaRecords, collectionsMetadataRecords,
                                  memoryUsers, faults >>
               \/ /\ faults < MaxFaults
                  /\ faults' = faults + 1
                  /\ Put(p, Pop([r EXCEPT !.err = "insert", !.inserts = @ + 1]))
                  /\ UNCHANGED << metaRecords, collectionsMetadataRecords,
                                  memoryUsers >>
    /\ UNCHANGED << now, remoteCollections, remoteIndexed, remoteLoaded,
                    collectionExistsCache, metadataCache, nOps,
                    collectionsMetadataCache, lastIndex >>

\* ----------------------------------------------------- MilvusService.search
SE_Start(p) ==
    /\ At(p, "se_start")
    /\ Put(p, Call([proc[p] EXCEPT !.loaded = {}], "en_start", "se_ensured"))
    /\ UNCHANGED << now, remoteVars, collectionExistsCache, metadataCache,
                    nOps, faults >>
    /\ UNCHANGED ragVars

SE_Ensured(p) ==
    /\ At(p, "se_ensured")
    /\ Put(p, EnsuredThenLoad(proc[p], "se_loaded"))
    /\ UNCHANGED << now, remoteVars, collectionExistsCache, metadataCache,
                    nOps, faults >>
    /\ UNCHANGED ragVars

\* the documents of the collections that queries search, each with its score
\* for the question, best first
QueryNames == {"docs", "faq"}

StoredDocs(n) ==
    IF n = "docs"
    THEN << [id |-> 1, score |-> 9, collection |-> "docs"],
            [id |-> 2, score |-> 5, collection |-> "docs"],
            [id |-> 3, score |-> 3, collection |-> "docs"] >>
    ELSE IF n = "faq"
    THEN << [id |-> 4, score |-> 7, collection |-> "faq"],
            [id |-> 5, score |-> 5, collection |-> "faq"] >>
    ELSE << >>

\* client.search with limit: the best `limit` documents of the collection
SearchHits(n, limit) ==
    SubSeq(StoredDocs(n), 1,
           IF limit < Len(StoredDocs(n)) THEN limit ELSE Len(StoredDocs(n)))

\* the records the filter  metadata.collectionName == key  selects
Matching(records, key) ==
    {i \in DOMAIN records : records[i].name = key}

\* the records the filter  metadata.userId == key  selects
MatchingUser(records, key) ==
    {i \in DOMAIN records : records[i].userId = key}

\* client.search of a reserved collection with limit 1 and the filter on
\* key: one of the matching records, or none; searches counts the calls of
\* client.search
SE_Loaded(p) ==
    /\ At(p, "se_loaded")
    /\ LET r == proc[p]
           n == r.cname
           records == IF n = METADATA_COLLECTION THEN metaRecords
                      ELSE IF n = metadataCollectionName
                      THEN collectionsMetadataRecords
                      ELSE IF n = usersCollectionName THEN memoryUsers
                      ELSE << >>
           hits == IF n = usersCollectionName
                   THEN MatchingUser(records, r.key)
                   ELSE Matching(records, r.key)
       IN IF r.err # "none"
          THEN /\ Put(p, Pop(r))
               /\ UNCHANGED faults
          ELSE \/ /\ n \in remoteCollections
                  /\ IF hits = {}
                     THEN Put(p, Pop([r EXCEPT
                            !.err = "none", !.meta = NoMeta,
                            !.searches = @ + 1,
                            !.q.results = SearchHits(n, r.q.topKPerCollection)]))
                     ELSE \E i \in hits :
                            Put(p, Pop([r EXCEPT !.err = "none",
                                                 !.searches = @ + 1,
                                                 !.meta = records[i]]))
                  /\ UNCHANGED faults
               \/ /\ n \notin remoteCollections
                  /\ Put(p, Pop([r EXCEPT !.err = "search",
                                          !.searches = @ + 1]))
                  /\ UNCHANGED faults
               \/ /\ faults < MaxFaults
                  /\ faults' = faults + 1
                  /\ Put(p, Pop([r EXCEPT !.err = "search",
                                          !.searches = @ + 1]))
    /\ UNCHANGED << now, remoteVars, collectionExistsCache, metadataCache, nOps >>
    /\ UNCHANGED ragVars

\* -------------------------------------------- MilvusService.upsertDocuments
UD_Start(p) ==
    /\ At(p, "ud_start")
    /\ Put(p, Call([proc[p] EXCEPT !.loaded = {}], "en_start", "ud_ensured"))
    /\ UNCHANGED << now, remoteVars, collectionExistsCache, metadataCache,
                    nOps, faults >>
    /\ UNCHANGED ragVars

UD_Ensured(p) ==
    /\ At(p, "ud_ensured")
    /\ Put(p, EnsuredThenLoad(proc[p], "ud_loaded"))
    /\ UNCHANGED << now, remoteVars, collectionExistsCache, metadataCache,
                    nOps, faults >>
    /\ UNCHANGED ragVars

\* client.upsert of documents of a user collection; upserts counts the calls
\* of client.upsert
UD_Loaded(p) ==
    /\ At(p, "ud_loaded")
    /\ LET r == proc[p]
           n == r.cname
       IN IF r.err # "none"
          THEN /\ Put(p, Pop(r))
               /\ UNCHANGED faults
          ELSE \/ /\ n \in remoteCollections
                  /\ Put(p, Pop([r EXCEPT !.err = "none", !.upserts = @ + 1]))
                  /\ UNCHANGED faults
               \/ /\ n \notin remoteCollections
                  /\ Put(p, Pop([r EXCEPT !.err = "upsert", !.upserts = @ + 1]))
                  /\ UNCHANGED faults
               \/ /\ faults < MaxFaults
                  /\ faults' = faults + 1
                  /\ Put(p, Pop([r EXCEPT !.err = "upsert", !.upserts = @ + 1]))
    /\ UNCHANGED << now, remoteVars, collectionExistsCache, metadataCache, nOps >>
    /\ UNCHANGED ragVars

\* ------------------------------------- MilvusService.listCollections et al.
\* the order in which client.showCollections lists the collections
NameOrder == << "docs", METADATA_COLLECTION, metadataCollectionName >>

Listing(S) == SelectSeq(NameOrder, LAMBDA n : n \in S)

\* --------------------------- CollectionManagerService.getCollectionMetadata
\* cached metadata, or retrieveMetadata: a search of the reserved collection
GM_Start(p) ==
    /\ At(p, "gm_start")
    /\ LET r == proc[p]
       IN IF r.key \in DOMAIN metadataCache
          THEN Put(p, Pop([r EXCEPT !.meta = metadataCache[r.key],
                                    !.err = "none"]))
          ELSE Put(p, Call([r EXCEPT !.cname = METADATA_COLLECTION],
                           "se_start", "gm_retrieved"))
    /\ UNCHANGED << now, remoteVars, collectionExistsCache, metadataCache,
                    nOps, faults >>
    /\ UNCHANGED ragVars

\* retrieveMetadata answers null when the search failed or found nothing;
\* metadata that was found is cached
GM_Retrieved(p) ==
    /\ At(p, "gm_retrieved")
    /\ LET r == proc[p]
       IN IF r.err # "none"
          THEN /\ Put(p, Pop([r EXCEPT !.err = "none", !.meta = NoMeta]))
               /\ UNCHANGED metadataCache
          ELSE IF r.meta = NoMeta
          THEN /\ Put(p, Pop(r))
               /\ UNCHANGED metadataCache
          ELSE /\ metadataCache' = MapSet(metadataCache, r.key, r.meta)
               /\ Put(p, Pop(r))
    /\ UNCHANGED << now, remoteVars, collectionExistsCache, nOps, faults >>
    /\ UNCHANGED ragVars

\* ---------------------------------- CollectionManagerService.listCollections
\* the metadata autoRegisterCollection synthesizes
AutoRegistered(n) ==
    [name |-> n, tags |-> "auto-registered", vectorDim |-> VECTOR_DIM,
     status |-> "unloaded"]

\* the test by which the loops of listCollections and loadMetadata skip a
\* collection
IsMetadataCollection(n) == n = METADATA_COLLECTION

\* milvusService.listCollections: client.showCollections; on failure
\* listCollections returns the empty list
LC_Start(p) ==
    /\ At(p, "lc_start")
    /\ LET r == proc[p]
       IN \/ /\ Put(p, Goto([r EXCEPT !.todo = Listing(remoteCollections),
                                      !.listed = remoteCollections,
                                      !.acc = << >>], "lc_loop"))
             /\ UNCHANGED faults
          \/ /\ faults < MaxFaults
             /\ faults' = faults + 1
             /\ Put(p, Pop([r EXCEPT !.list = << >>, !.err = "none"]))
    /\ UNCHANGED << now, remoteVars, collectionExistsCache, metadataCache, nOps >>
    /\ UNCHANGED ragVars

LC_Loop(p) ==
    /\ At(p, "lc_loop")
    /\ LET r == proc[p]
       IN IF r.todo = << >>
          THEN Put(p, Pop([r EXCEPT !.list = r.acc, !.err = "none"]))
          ELSE IF IsMetadataCollection(Head(r.todo))
          THEN Put(p, [r EXCEPT !.todo = Tail(@)])
          ELSE Put(p, Call([r EXCEPT !.key = Head(r.todo)],
                           "gm_start", "lc_got"))
    /\ UNCHANGED << now, remoteVars, collectionExistsCache, metadataCache,
                    nOps, faults >>
    /\ UNCHANGED ragVars

\* metadata found: next collection; else autoRegisterCollection, whose
\* storeMetadata inserts the record into the reserved collection
LC_Got(p) ==
    /\ At(p, "lc_got")
    /\ LET r == proc[p]
       IN IF r.meta # NoMeta
          THEN Put(p, Goto([r EXCEPT !.acc = Append(@, r.meta),
                                     !.todo = Tail(@)], "lc_loop"))
          ELSE Put(p, Call([r EXCEPT !.doc = AutoRegistered(r.key),
                                     !.cname = METADATA_COLLECTION],
                           "id_start", "lc_registered"))
    /\ UNCHANGED << now, remoteVars, collectionExistsCache, metadataCache,
                    nOps, faults >>
    /\ UNCHANGED ragVars

\* stored: cache it and go on; storing failed: autoRegisterCollection throws
\* and listCollections returns the empty list
LC_Registered(p) ==
    /\ At(p, "lc_registered")
    /\ LET r == proc[p]
       IN IF r.err # "none"
          THEN /\ Put(p, Pop([r EXCEPT !.list = << >>, !.err = "none"]))
               /\ UNCHANGED metadataCache
          ELSE /\ metadataCache' = MapSet(metadataCache, r.key, r.doc)
               /\ Put(p, Goto([r EXCEPT !.acc = Append(@, r.doc),
                                        !.todo = Tail(@)], "lc_loop"))
    /\ UNCHANGED << now, remoteVars, collectionExistsCache, nOps, faults >>
    /\ UNCHANGED ragVars

\* --------------------------------- CollectionManagerService.createCollection
\* the metadata createCollection builds
Created(n) ==
    [name |-> n, tags |-> "user", vectorDim |-> VECTOR_DIM,
     status |-> "unloaded"]

MC_Start(p) ==
    /\ At(p, "mc_start")
    /\ Put(p, Call(proc[p], "en_start", "mc_ensured"))
    /\ UNCHANGED << now, remoteVars, collectionExistsCache, metadataCache,
                    nOps, faults >>
    /\ UNCHANGED ragVars

MC_Ensured(p) ==
    /\ At(p, "mc_ensured")
    /\ LET r == proc[p]
       IN IF r.err # "none"
          THEN Put(p, Pop(r))
          ELSE Put(p, Call([r EXCEPT !.doc = Created(r.arg),
                                     !.key = r.arg,
                                     !.cname = METADATA_COLLECTION],
                           "id_start", "mc_stored"))
    /\ UNCHANGED << now, remoteVars, collectionExistsCache, metadataCache,
                    nOps, faults >>
    /\ UNCHANGED ragVars

MC_Stored(p) ==
    /\ At(p, "mc_stored")
    /\ LET r == proc[p]
       IN IF r.err # "none"
          THEN /\ Put(p, Pop(r))
               /\ UNCHANGED metadataCache
          ELSE /\ metadataCache' = MapSet(metadataCache, r.key, r.doc)
               /\ Put(p, Pop([r EXCEPT !.meta = r.doc]))
    /\ UNCHANGED << now, remoteVars, collectionExistsCache, nOps, faults >>
    /\ UNCHANGED ragVars

\* ------------------------- CollectionManagerService.updateCollectionMetadata
\* { ...existing, ...updates }: a field of updates replaces the field of
\* existing
Merged(existing, updates) == updates @@ existing

UM_Start(p) ==
    /\ At(p, "um_start")
    /\ Put(p, Call([proc[p] EXCEPT !.key = proc[p].arg], "gm_start", "um_got"))
    /\ UNCHANGED << now, remoteVars, collectionExistsCache, metadataCache,
                    nOps, faults >>
    /\ UNCHANGED ragVars

\* no metadata: "not found"; else storeMetadata(updated), which inserts a
\* record into the reserved collection
UM_Got(p) ==
    /\ At(p, "um_got")
    /\ LET r == proc[p]
       IN IF r.meta = NoMeta
          THEN Put(p, Pop([r EXCEPT !.err = "not_found"]))
          ELSE Put(p, Call([r EXCEPT !.doc = Merged(r.meta, r.updates),
                                     !.cname = METADATA_COLLECTION],
                           "id_start", "um_stored"))
    /\ UNCHANGED << now, remoteVars, collectionExistsCache, metadataCache,
                    nOps, faults >>
    /\ UNCHANGED ragVars

UM_Stored(p) ==
    /\ At(p, "um_stored")
    /\ LET r == proc[p]
       IN IF r.err # "none"
          THEN /\ Put(p, Pop(r))
               /\ UNCHANGED metadataCache
          ELSE /\ metadataCache' = MapSet(metadataCache, r.arg, r.doc)
               /\ Put(p, Pop([r EXCEPT !.meta = r.doc]))
    /\ UNCHANGED << now, remoteVars, collectionExistsCache, nOps, faults >>
    /\ UNCHANGED ragVars

\* --------------------------------------- CollectionManagerService.clearCache
\* metadataCache.clear(); POST /collections/sync/all calls it before listing
ClearCache ==
    /\ metadataCache # << >>
    /\ metadataCache' = << >>
    /\ UNCHANGED << now, remoteVars, collectionExistsCache, proc, nOps,
                    faults, ragVars >>

\* --------------------------------- CollectionManagerService.deleteCollection
\* the records left by client.delete with the filter on key
Deleted(records, key) == SelectSeq(records, LAMBDA m : m.name # key)

\* milvusService.deleteCollection: client.dropCollection.  Dropping the
\* reserved collection drops its records.
DC_Drop(p) ==
    /\ At(p, "dc_drop")
    /\ LET r == proc[p]
           n == r.arg
       IN \/ /\ remoteCollections' = remoteCollections \ {n}
             /\ remoteIndexed' = remoteIndexed \ {n}
             /\ remoteLoaded' = remoteLoaded \ {n}
             /\ metaRecords' = IF n = METADATA_COLLECTION
                               THEN << >> ELSE metaRecords
             /\ Put(p, Goto([r EXCEPT !.key = n], "dc_meta"))
             /\ UNCHANGED faults
          \/ /\ faults < MaxFaults
             /\ faults' = faults + 1
             /\ Put(p, Pop([r EXCEPT !.err = "drop"]))
             /\ UNCHANGED remoteVars
    /\ UNCHANGED << now, collectionExistsCache, metadataCache, nOps >>
    /\ UNCHANGED ragVars

\* deleteMetadata: client.delete on the reserved collection, then the entry
\* of the metadata cache is removed
DC_Meta(p) ==
    /\ At(p, "dc_meta")
    /\ LET r == proc[p]
       IN \/ /\ METADATA_COLLECTION \in remoteCollections
             /\ metaRecords' = Deleted(metaRecords, r.key)
             /\ metadataCache' = MapDelete(metadataCache, r.key)
             /\ Put(p, Pop([r EXCEPT !.err = "none"]))
             /\ UNCHANGED faults
          \/ /\ METADATA_COLLECTION \notin remoteCollections
             /\ Put(p, Pop([r EXCEPT !.err = "deleteMetadata"]))
             /\ UNCHANGED << metaRecords, metadataCache, faults >>
          \/ /\ faults < MaxFaults
             /\ faults' = faults + 1
             /\ Put(p, Pop([r EXCEPT !.err = "deleteMetadata"]))
             /\ UNCHANGED << metaRecords, metadataCache >>
    /\ UNCHANGED << now, remoteCollections, remoteIndexed, remoteLoaded,
                    collectionExistsCache, nOps >>
    /\ UNCHANGED ragVars

\* ------------------------------------- MilvusController.deleteCollection
\* DELETE /collections/:name: collectionExists, then
\* collectionManager.deleteCollection, then clearCollectionExistsCache
HD_Start(p) ==
    /\ At(p, "hd_start")
    /\ Put(p, Call(proc[p], "ce_cache", "hd_checked"))
    /\ UNCHANGED << now, remoteVars, collectionExistsCache, metadataCache,
                    nOps, faults >>
    /\ UNCHANGED ragVars

\* "does not exist" is answered with NotFound; an error of the check is
\* logged and the deletion proceeds
HD_Checked(p) ==
    /\ At(p, "hd_checked")
    /\ LET r == proc[p]
       IN IF r.err = "none" /\ ~r.exists
          THEN Put(p, Pop([r EXCEPT !.err = "not_found"]))
          ELSE Put(p, Call([r EXCEPT !.err = "none"], "dc_drop", "hd_deleted"))
    /\ UNCHANGED << now, remoteVars, collectionExistsCache, metadataCache,
                    nOps, faults >>
    /\ UNCHANGED ragVars

HD_Deleted(p) ==
    /\ At(p, "hd_deleted")
    /\ LET r == proc[p]
       IN IF r.err # "none"
          THEN /\ Put(p, Pop(r))
               /\ UNCHANGED collectionExistsCache
          ELSE /\ collectionExistsCache' =
                     MapDelete(collectionExistsCache, r.arg)
               /\ Put(p, Pop(r))
    /\ UNCHANGED << now, remoteVars, metadataCache, nOps, faults >>
    /\ UNCHANGED ragVars

\* ------------------------------------- CollectionManagerService.initialize
IN_Start(p) ==
    /\ At(p, "in_start")
    /\ Put(p, Call(proc[p], "en_start", "in_ensured"))
    /\ UNCHANGED << now, remoteVars, collectionExistsCache, metadataCache,
                    nOps, faults >>
    /\ UNCHANGED ragVars

\* the reserved collection is there: loadMetadata lists the collections; it
\* logs its own failures and returns
IN_Ensured(p) ==
    /\ At(p, "in_ensured")
    /\ LET r == proc[p]
       IN IF r.err # "none"
          THEN /\ Put(p, Pop(r))
               /\ UNCHANGED faults
          ELSE \/ /\ Put(p, Goto([r EXCEPT !.todo = Listing(remoteCollections)],
                                 "lm_loop"))
                  /\ UNCHANGED faults
               \/ /\ faults < MaxFaults
                  /\ faults' = faults + 1
                  /\ Put(p, Pop([r EXCEPT !.err = "none"]))
    /\ UNCHANGED << now, remoteVars, collectionExistsCache, metadataCache, nOps >>
    /\ UNCHANGED ragVars

LM_Loop(p) ==
    /\ At(p, "lm_loop")
    /\ LET r == proc[p]
       IN IF r.todo = << >>
          THEN Put(p, Pop([r EXCEPT !.err = "none"]))
          ELSE IF IsMetadataCollection(Head(r.todo))
          THEN Put(p, [r EXCEPT !.todo = Tail(@)])
          ELSE Put(p, Call([r EXCEPT !.key = Head(r.todo),
                                     !.cname = METADATA_COLLECTION],
                           "se_start", "lm_retrieved"))
    /\ UNCHANGED << now, remoteVars, collectionExistsCache, metadataCache,
                    nOps, faults >>
    /\ UNCHANGED ragVars

LM_Retrieved(p) ==
    /\ At(p, "lm_retrieved")
    /\ LET r == proc[p]
       IN IF r.err = "none" /\ r.meta # NoMeta
          THEN /\ metadataCache' = MapSet(metadataCache, r.key, r.meta)
               /\ Put(p, Goto([r EXCEPT !.todo = Tail(@)], "lm_loop"))
          ELSE /\ Put(p, Call([r EXCEPT !.err = "none",
                                        !.doc = AutoRegistered(r.key),
                                        !.cname = METADATA_COLLECTION],
                              "id_start", "lm_registered"))
               /\ UNCHANGED metadataCache
    /\ UNCHANGED << now, remoteVars, collectionExistsCache, nOps, faults >>
    /\ UNCHANGED ragVars

LM_Registered(p) ==
    /\ At(p, "lm_registered")
    /\ LET r == proc[p]
       IN IF r.err # "none"
          THEN /\ Put(p, Pop([r EXCEPT !.err = "none"]))
               /\ UNCHANGED metadataCache
          ELSE /\ metadataCache' = MapSet(metadataCache, r.key, r.doc)
               /\ Put(p, Goto([r EXCEPT !.todo = Tail(@)], "lm_loop"))
    /\ UNCHANGED << now, remoteVars, collectionExistsCache, nOps, faults >>
    /\ UNCHANGED ragVars

\* ------------------------- CollectionsMetadataService.getCollectionMetadata
\* cached metadata, or ensureCollectionLoaded of the reserved collection
RG_Start(p) ==
    /\ At(p, "rg_start")
    /\ LET r == proc[p]
       IN IF r.key \in DOMAIN collectionsMetadataCache
          THEN Put(p, Pop([r EXCEPT !.meta = collectionsMetadataCache[r.key],
                                    !.err = "none"]))
          ELSE Put(p, Call([r EXCEPT !.cname = metadataCollectionName],
                           "el_check", "rg_loaded"))
    /\ UNCHANGED << now, remoteVars, collectionExistsCache, metadataCache,
                    nOps, faults, ragVars >>

\* openaiService.generateEmbedding, then the search; every error is caught
\* and answered with null
RG_Loaded(p) ==
    /\ At(p, "rg_loaded")
    /\ LET r == proc[p]
       IN IF r.err # "none"
          THEN /\ Put(p, Pop([r EXCEPT !.err = "none", !.meta = NoMeta]))
               /\ UNCHANGED faults
          ELSE \/ /\ Put(p, Call(r, "se_start", "rg_found"))
                  /\ UNCHANGED faults
               \/ /\ faults < MaxFaults
                  /\ faults' = faults + 1
                  /\ Put(p, Pop([r EXCEPT !.err = "none", !.meta = NoMeta]))
    /\ UNCHANGED << now, remoteVars, collectionExistsCache, metadataCache,
                    nOps, ragVars >>

RG_Found(p) ==
    /\ At(p, "rg_found")
    /\ LET r == proc[p]
       IN IF r.err # "none"
          THEN /\ Put(p, Pop([r EXCEPT !.err = "none", !.meta = NoMeta]))
               /\ UNCHANGED collectionsMetadataCache
          ELSE IF r.meta = NoMeta
          THEN /\ Put(p, Pop(r))
               /\ UNCHANGED collectionsMetadataCache
          ELSE /\ collectionsMetadataCache' =
                     MapSet(collectionsMetadataCache, r.key, r.meta)
               /\ Put(p, Pop(r))
    /\ UNCHANGED << now, remoteVars, collectionExistsCache, metadataCache,
                    nOps, faults, collectionsMetadataRecords, lastIndex,
                    memoryUsers >>

\* ---------------------- CollectionsMetadataService.createCollectionMetadata
\* storeMetadata: generateEmbedding, ensureCollectionLoaded, insertDocuments
RC_Start(p) ==
    /\ At(p, "rc_start")
    /\ LET r == proc[p]
       IN \/ /\ Put(p, Call([r EXCEPT !.doc = Created(r.arg),
                                      !.cname = metadataCollectionName],
                            "el_check", "rc_loaded"))
             /\ UNCHANGED faults
          \/ /\ faults < MaxFaults
             /\ faults' = faults + 1
             /\ Put(p, Pop([r EXCEPT !.err = "embedding"]))
    /\ UNCHANGED << now, remoteVars, collectionExistsCache, metadataCache,
                    nOps, ragVars >>

RC_Loaded(p) ==
    /\ At(p, "rc_loaded")
    /\ LET r == proc[p]
       IN IF r.err # "none"
          THEN Put(p, Pop(r))
          ELSE Put(p, Call(r, "id_start", "rc_stored"))
    /\ UNCHANGED << now, remoteVars, collectionExistsCache, metadataCache,
                    nOps, faults, ragVars >>

RC_Stored(p) ==
    /\ At(p, "rc_stored")
    /\ LET r == proc[p]
       IN IF r.err # "none"
          THEN /\ Put(p, Pop(r))
               /\ UNCHANGED collectionsMetadataCache
          ELSE /\ collectionsMetadataCache' =
                     MapSet(collectionsMetadataCache, r.arg, r.doc)
               /\ Put(p, Pop([r EXCEPT !.meta = r.doc]))
    /\ UNCHANGED << now, remoteVars, collectionExistsCache, metadataCache,
                    nOps, faults, collectionsMetadataRecords, lastIndex,
                    memoryUsers >>

\* ------------------------------------------ RagService.queryMultipleCollections
\* Array.prototype.sort((a, b) => b.score - a.score) is stable: x goes behind
\* the elements whose score is not below its own
InsertByScore(sorted, x) ==
    LET ahead == {i \in 1..Len(sorted) : sorted[i].score >= x.score}
        k == Cardinality(ahead)
    IN SubSeq(sorted, 1, k) \o << x >> \o SubSeq(sorted, k + 1, Len(sorted))

RECURSIVE SortByScore(_)
SortByScore(results) ==
    IF results = << >> THEN << >>
    ELSE InsertByScore(SortByScore(SubSeq(results, 1, Len(results) - 1)),
                       results[Len(results)])

\* slice(0, k) without the sort
TopResultsUnsorted(all, k) ==
    SubSeq(all, 1, IF k < Len(all) THEN k ELSE Len(all))

\* allResults.sort(...).slice(0, this.defaultTopK)
TopResults(all, k) ==
    SubSeq(SortByScore(all), 1, IF k < Len(all) THEN k ELSE Len(all))

\* a catch block that lets the failure of a collection end the query
CaughtPerCollectionRethrow(r) == Pop(r)

\* the catch block inside the loop: the collection is skipped with a warning
CaughtPerCollection(r) ==
    Goto([r EXCEPT !.err = "none", !.q.todo = Tail(@),
                   !.q.skipped = Append(@, Head(r.q.todo))], "qm_loop")

\* openaiService.generateEmbedding(question), once
QM_Start(p) ==
    /\ At(p, "qm_start")
    /\ LET r == proc[p]
       IN \/ /\ Put(p, Goto(r, "qm_loop"))
             /\ UNCHANGED faults
          \/ /\ faults < MaxFaults
             /\ faults' = faults + 1
             /\ Put(p, Pop([r EXCEPT !.err = "embedding"]))
    /\ UNCHANGED << now, remoteVars, collectionExistsCache, metadataCache,
                    nOps, ragVars >>

\* the loop over the collections: ensureCollectionLoaded of the next one
QM_Loop(p) ==
    /\ At(p, "qm_loop")
    /\ LET r == proc[p]
       IN IF r.q.todo = << >>
          THEN Put(p, Goto(r, "qm_answer"))
          ELSE Put(p, Call([r EXCEPT !.cname = Head(r.q.todo)],
                           "el_check", "qm_loaded"))
    /\ UNCHANGED << now, remoteVars, collectionExistsCache, metadataCache,
                    nOps, faults, ragVars >>

QM_Loaded(p) ==
    /\ At(p, "qm_loaded")
    /\ LET r == proc[p]
       IN IF r.err # "none"
          THEN Put(p, CaughtPerCollection(r))
          ELSE Put(p, Call(r, "se_start", "qm_searched"))
    /\ UNCHANGED << now, remoteVars, collectionExistsCache, metadataCache,
                    nOps, faults, ragVars >>

\* the results of the collection are appended to allResults
QM_Searched(p) ==
    /\ At(p, "qm_searched")
    /\ LET r == proc[p]
       IN IF r.err # "none"
          THEN Put(p, CaughtPerCollection(r))
          ELSE Put(p, Goto([r EXCEPT
                 !.q.allResults = @ \o r.q.results,
                 !.q.searched = Append(@, Head(r.q.todo)),
                 !.q.todo = Tail(@)], "qm_loop"))
    /\ UNCHANGED << now, remoteVars, collectionExistsCache, metadataCache,
                    nOps, faults, ragVars >>

\* sort, truncate, openaiService.generateRagResponse, return
QM_Answer(p) ==
    /\ At(p, "qm_answer")
    /\ LET r == proc[p]
       IN \/ /\ Put(p, Pop([r EXCEPT
                    !.q.sources = TopResults(r.q.allResults, r.q.defaultTopK)]))
             /\ UNCHANGED faults
          \/ /\ faults < MaxFaults
             /\ faults' = faults + 1
             /\ Put(p, Pop([r EXCEPT !.err = "generate"]))
    /\ UNCHANGED << now, remoteVars, collectionExistsCache, metadataCache,
                    nOps, ragVars >>

\* ------------------------------------------------------------ ChunkerService
\* strings are sequences of characters; " " is the whitespace character
Chars == {"a", " ", "|"}
Texts == UNION { [1..k -> Chars] : k \in 0..MaxTextLen }
Separators == { << "|" >>, << " ", " " >> }
ChunkSizes == 1..MaxChunkSize
Overlaps == 0..MaxChunkSize

Min(a, b) == IF a < b THEN a ELSE b
Max(a, b) == IF a > b THEN a ELSE b
Clamp(i, n) == Max(0, Min(i, n))

\* String.prototype.substring: the indices are clamped to 0..length and
\* swapped when the first is the larger
Substring(str, a, b) ==
    LET x == Clamp(a, Len(str))
        y == Clamp(b, Len(str))
    IN SubSeq(str, Min(x, y) + 1, Max(x, y))

\* String.prototype.trim
Trim(str) ==
    LET kept == {i \in 1..Len(str) : str[i] # " "}
    IN IF kept = {} THEN << >>
       ELSE SubSeq(str, CHOOSE i \in kept : \A j \in kept : i <= j,
                        CHOOSE i \in kept : \A j \in kept : i >= j)

\* str.slice(-k): the last k characters; -0 is 0, so slice(-0) is the whole
\* string, as is slice(-k) for k >= length
SliceLast(str, k) ==
    IF k = 0 \/ k >= Len(str) THEN str
    ELSE SubSeq(str, Len(str) - k + 1, Len(str))

\* the positions at which sep occurs in str
Occurrences(str, sep) ==
    {i \in 1..(Len(str) - Len(sep) + 1) :
        SubSeq(str, i, i + Len(sep) - 1) = sep}

\* String.prototype.split with a non-empty separator
RECURSIVE Split(_, _)
Split(str, sep) ==
    IF Occurrences(str, sep) = {} THEN << str >>
    ELSE LET i == CHOOSE k \in Occurrences(str, sep) :
                    \A j \in Occurrences(str, sep) : k <= j
         IN << SubSeq(str, 1, i - 1) >>
            \o Split(SubSeq(str, i + Len(sep), Len(str)), sep)

\* a Chunk whose chunkIndex counts from one
NewChunkOneBased(text, startIndex, endIndex, chunkIndex, totalChunks) ==
    [text |-> text, startIndex |-> startIndex, endIndex |-> endIndex,
     chunkIndex |-> chunkIndex + 1, totalChunks |-> totalChunks]

\* a Chunk; totalChunks = -1 when the method does not set the field
NewChunk(text, startIndex, endIndex, chunkIndex, totalChunks) ==
    [text |-> text, startIndex |-> startIndex, endIndex |-> endIndex,
     chunkIndex |-> chunkIndex, totalChunks |-> totalChunks]

ChunkerFrame ==
    UNCHANGED << now, remoteVars, collectionExistsCache, metadataCache,
                 nOps, faults, ragVars >>

\* chunkText, one pass of the loop over the parts
CT_Part(p) ==
    /\ At(p, "ct_loop")
    /\ proc[p].ck.parts # << >>
    /\ LET r == proc[p]
           c == r.ck
           part == Head(c.parts)
           cur == c.currentChunk
           chunk == NewChunk(Trim(cur), c.startIndex, c.startIndex + Len(cur),
                             Len(c.chunks), 0)
       IN IF Len(cur) + Len(part) + Len(c.separator) > c.chunkSize
             /\ Len(cur) > 0
          THEN Put(p, [r EXCEPT
                 !.ck.chunks = Append(@, chunk),
                 !.ck.currentChunk =
                     SliceLast(cur, c.overlap) \o c.separator \o part,
                 !.ck.startIndex = @ + Len(chunk.text) - c.overlap,
                 !.ck.parts = Tail(@)])
          ELSE Put(p, [r EXCEPT
                 !.ck.currentChunk =
                     (IF Len(cur) > 0 THEN cur \o c.separator ELSE cur)
                     \o part,
                 !.ck.parts = Tail(@)])
    /\ ChunkerFrame

\* chunkText after the loop: the remaining chunk, totalChunks, return
CT_Finish(p) ==
    /\ At(p, "ct_loop")
    /\ proc[p].ck.parts = << >>
    /\ LET r == proc[p]
           c == r.ck
           cur == c.currentChunk
           chunk == NewChunk(Trim(cur), c.startIndex, c.startIndex + Len(cur),
                             Len(c.chunks), Len(c.chunks) + 1)
           all == IF Len(Trim(cur)) > 0 THEN Append(c.chunks, chunk)
                  ELSE c.chunks
       IN Put(p, Pop([r EXCEPT
              !.ck.chunks = [i \in DOMAIN all |->
                               [all[i] EXCEPT !.totalChunks = Len(all)]]]))
    /\ ChunkerFrame

\* chunkByCharCount, one pass of the while loop; the pass ends the loop
\* ("prevent infinite loop") when the new startIndex is not below endIndex
CB_Iterate(p) ==
    /\ At(p, "cb_loop")
    /\ proc[p].ck.startIndex < Len(proc[p].ck.text)
    /\ Len(proc[p].ck.chunks) < MaxChunks
    /\ LET r == proc[p]
           c == r.ck
           endIndex == Min(c.startIndex + c.chunkSize, Len(c.text))
           chunk == NewChunk(Trim(Substring(c.text, c.startIndex, endIndex)),
                             c.startIndex, endIndex, Len(c.chunks), -1)
           next == [r EXCEPT !.ck.chunks = Append(@, chunk),
                             !.ck.startIndex = endIndex - c.overlap]
       IN IF endIndex - c.overlap >= endIndex
          THEN Put(p, Pop(next))
          ELSE Put(p, next)
    /\ ChunkerFrame

\* chunkByCharCount: the loop condition fails, return
CB_Return(p) ==
    /\ At(p, "cb_loop")
    /\ ~ (proc[p].ck.startIndex < Len(proc[p].ck.text))
    /\ Put(p, Pop(proc[p]))
    /\ ChunkerFrame

\* ----------------------------------------------------------- RerankerService
\* numbers that are not integers are fractions n/d with d > 0
Frac(n, d) == [n |-> n, d |-> d]

RECURSIVE GCD(_, _)
GCD(a, b) == IF b = 0 THEN a ELSE GCD(b, a % b)

\* the same number in lowest terms
Reduced(a) ==
    LET g == GCD(IF a.n < 0 THEN -a.n ELSE a.n, a.d)
    IN Frac(a.n \div g, a.d \div g)

FracAdd(a, b) == Reduced(Frac(a.n * b.d + b.n * a.d, a.d * b.d))
FracMul(a, b) == Reduced(Frac(a.n * b.n, a.d * b.d))
FracLess(a, b) == a.n * b.d < b.n * a.d
FracMin(a, b) == IF FracLess(b, a) THEN b ELSE a

\* String.prototype.toLowerCase over the letters of the model
ToLowerCase(str) ==
    [i \in DOMAIN str |-> IF str[i] = "P" THEN "p"
                          ELSE IF str[i] = "T" THEN "t" ELSE str[i]]

\* String.prototype.split(/\s+/): every run of whitespace separates two terms
RECURSIVE SplitWhitespace(_)
SplitWhitespace(str) ==
    LET ws == {i \in DOMAIN str : str[i] = " "}
    IN IF ws = {} THEN << str >>
       ELSE LET first == CHOOSE i \in ws : \A j \in ws : i <= j
                after == CHOOSE k \in (first + 1)..(Len(str) + 1) :
                           /\ \A j \in first..(k - 1) : str[j] = " "
                           /\ k = Len(str) + 1 \/ str[k] # " "
            IN << SubSeq(str, 1, first - 1) >>
                 \o SplitWhitespace(SubSeq(str, after, Len(str)))

\* String.prototype.includes
Includes(text, term) ==
    \E i \in 0..(Len(text) - Len(term)) :
        SubSeq(text, i + 1, i + Len(term)) = term

\* a slice that keeps every element
SliceAll(list, k) == list

\* Array.prototype.slice(0, k) for k >= 0
SliceTo(list, k) == SubSeq(list, 1, Min(k, Len(list)))

\* the loop over queryTerms: the terms longer than 2 that the text includes
MatchCount(queryTerms, textLower) ==
    Cardinality({i \in DOMAIN queryTerms :
                   Len(queryTerms[i]) > 2 /\ Includes(textLower, queryTerms[i])})

\* the keyword score of hybridRerank: matchCount / queryTerms.length
KeywordScore(query, text) ==
    LET queryTerms == SplitWhitespace(ToLowerCase(query))
    IN IF Len(queryTerms) > 0
       THEN Frac(MatchCount(queryTerms, ToLowerCase(text)), Len(queryTerms))
       ELSE Frac(0, 1)

\* calculateRelevance: the fraction of matching terms plus
\* Math.min(text.length / 1000, 1) * 0.2, at most 1
CalculateRelevance(query, text) ==
    LET relevanceScore == KeywordScore(query, text)
        lengthBoost == Frac(Min(Len(text), 1000), 5000)
    IN FracMin(FracAdd(relevanceScore, lengthBoost), Frac(1, 1))

\* Math.sqrt of a perfect square
Sqrt(n) == CHOOSE r \in 0..n : r * r = n

RECURSIVE Sum(_, _)
Sum(f, k) == IF k = 0 THEN 0 ELSE f[k] + Sum(f, k - 1)

\* cosineSimilarity: 0 for an empty vector, for vectors of different
\* lengths and for a zero denominator
CosineSimilarity(a, b) ==
    IF Len(a) = 0 \/ Len(b) = 0 THEN Frac(0, 1)
    ELSE IF Len(a) # Len(b) THEN Frac(0, 1)
    ELSE LET dotProduct == Sum([i \in DOMAIN a |-> a[i] * b[i]], Len(a))
             normA == Sum([i \in DOMAIN a |-> a[i] * a[i]], Len(a))
             normB == Sum([i \in DOMAIN b |-> b[i] * b[i]], Len(b))
             denominator == Sqrt(normA) * Sqrt(normB)
         IN IF denominator = 0 THEN Frac(0, 1)
            ELSE Frac(dotProduct, denominator)

\* result.embedding is optional: the set of the embeddings the result has,
\* empty when it is undefined
HasEmbedding(result) == result.embedding # {}

\* result.embedding || []
EmbeddingOrEmpty(result) ==
    IF HasEmbedding(result) THEN CHOOSE v \in result.embedding : TRUE
    ELSE << >>

\* sort((a, b) => b.score - a.score) on pairs of a result and its score:
\* stable, x goes behind the pairs whose score is not below its own
InsertByRank(sorted, x) ==
    LET ahead == {i \in 1..Len(sorted) : ~ FracLess(sorted[i].score, x.score)}
        k == Cardinality(ahead)
    IN SubSeq(sorted, 1, k) \o << x >> \o SubSeq(sorted, k + 1, Len(sorted))

RECURSIVE SortByRank(_)
SortByRank(pairs) ==
    IF pairs = << >> THEN << >>
    ELSE InsertByRank(SortByRank(SubSeq(pairs, 1, Len(pairs) - 1)),
                      pairs[Len(pairs)])

\* score every result, sort, slice(0, topK) and map back to the results
Ranked(results, score(_), topK) ==
    LET pairs == [i \in DOMAIN results |->
                    [result |-> results[i], score |-> score(results[i])]]
        top == SliceTo(SortByRank(pairs), topK)
    IN [i \in DOMAIN top |-> top[i].result]

\* keywordScore * keywordWeight + semanticScore * semanticWeight
HybridScore(query, queryEmbedding, keywordWeight, semanticWeight, result) ==
    FracAdd(FracMul(KeywordScore(query, result.text), keywordWeight),
            FracMul(CosineSimilarity(queryEmbedding, EmbeddingOrEmpty(result)),
                    semanticWeight))

\* the catch block of every strategy: results.slice(0, topK)
RerankCaughtEmpty(results, topK) == << >>

RerankCaught(results, topK) == SliceTo(results, topK)

\* the inner loop of diversityRerank over the last selected embedding only
IsDuplicateOfLast(embedding, selectedEmbeddings, threshold) ==
    /\ selectedEmbeddings # << >>
    /\ FracLess(threshold,
                CosineSimilarity(embedding,
                                 selectedEmbeddings[Len(selectedEmbeddings)]))

\* the inner loop of diversityRerank: the similarity to some selected
\* embedding is above the threshold
IsDuplicate(embedding, selectedEmbeddings, threshold) ==
    \E i \in DOMAIN selectedEmbeddings :
        FracLess(threshold, CosineSimilarity(embedding, selectedEmbeddings[i]))

\* the outer loop of diversityRerank over the results still to visit
RECURSIVE Diversify(_, _, _, _, _)
Diversify(results, selected, selectedEmbeddings, topK, threshold) ==
    IF results = << >> \/ Len(selected) >= topK THEN selected
    ELSE LET result == Head(results)
         IN IF IsDuplicate(EmbeddingOrEmpty(result), selectedEmbeddings,
                           threshold)
            THEN Diversify(Tail(results), selected, selectedEmbeddings,
                           topK, threshold)
            ELSE Diversify(Tail(results), Append(selected, result),
                           IF HasEmbedding(result)
                           THEN Append(selectedEmbeddings,
                                       EmbeddingOrEmpty(result))
                           ELSE selectedEmbeddings,
                           topK, threshold)

\* the embeddings openaiService.generateEmbedding answers with
QueryVectors == { << 1, 0 >>, << 3, 4 >> }

RerankerFrame ==
    UNCHANGED << now, remoteVars, collectionExistsCache, metadataCache,
                 nOps, ragVars >>

\* rerank: calculateRelevance never throws and awaits nothing remote
RK_Rerank(p) ==
    /\ At(p, "rk_rerank")
    /\ LET r == proc[p]
           score(result) == CalculateRelevance(r.rr.query, result.text)
       IN Put(p, Pop([r EXCEPT !.rr.returned =
                        IF Len(r.rr.results) = 0 THEN << >>
                        ELSE Ranked(r.rr.results, score, r.rr.topK)]))
    /\ UNCHANGED faults
    /\ RerankerFrame

\* semanticRerank up to  await openaiService.generateEmbedding(query)
SR_Start(p) ==
    /\ At(p, "sr_start")
    /\ LET r == proc[p]
       IN IF Len(r.rr.results) = 0
          THEN Put(p, Pop([r EXCEPT !.rr.returned = << >>]))
          ELSE Put(p, Goto(r, "sr_embedded"))
    /\ UNCHANGED faults
    /\ RerankerFrame

\* semanticRerank after the embedding call: rank by the cosine similarity,
\* or the catch block when the call failed
SR_Embedded(p) ==
    /\ At(p, "sr_embedded")
    /\ LET r == proc[p]
       IN \/ /\ \E queryEmbedding \in QueryVectors :
                  LET score(result) ==
                        CosineSimilarity(queryEmbedding,
                                         EmbeddingOrEmpty(result))
                  IN Put(p, Pop([r EXCEPT
                         !.rr.queryEmbedding = queryEmbedding,
                         !.rr.returned =
                             Ranked(r.rr.results, score, r.rr.topK)]))
             /\ UNCHANGED faults
          \/ /\ faults < MaxFaults
             /\ faults' = faults + 1
             /\ Put(p, Pop([r EXCEPT
                    !.rr.threw = TRUE,
                    !.rr.returned = RerankCaught(r.rr.results, r.rr.topK)]))
    /\ RerankerFrame

\* hybridRerank up to  await openaiService.generateEmbedding(query)
HR_Start(p) ==
    /\ At(p, "hr_start")
    /\ LET r == proc[p]
       IN IF Len(r.rr.results) = 0
          THEN Put(p, Pop([r EXCEPT !.rr.returned = << >>]))
          ELSE Put(p, Goto(r, "hr_embedded"))
    /\ UNCHANGED faults
    /\ RerankerFrame

\* hybridRerank after the embedding call: rank by the hybrid score, or the
\* catch block when the call failed
HR_Embedded(p) ==
    /\ At(p, "hr_embedded")
    /\ LET r == proc[p]
       IN \/ /\ \E queryEmbedding \in QueryVectors :
                  LET score(result) ==
                        HybridScore(r.rr.query, queryEmbedding,
                                    r.rr.keywordWeight, r.rr.semanticWeight,
                                    result)
                  IN Put(p, Pop([r EXCEPT
                         !.rr.queryEmbedding = queryEmbedding,
                         !.rr.returned =
                             Ranked(r.rr.results, score, r.rr.topK)]))
             /\ UNCHANGED faults
          \/ /\ faults < MaxFaults
             /\ faults' = faults + 1
             /\ Put(p, Pop([r EXCEPT
                    !.rr.threw = TRUE,
                    !.rr.returned = RerankCaught(r.rr.results, r.rr.topK)]))
    /\ RerankerFrame

\* diversityRerank: nothing is awaited
DR_Select(p) ==
    /\ At(p, "dr_select")
    /\ LET r == proc[p]
       IN Put(p, Pop([r EXCEPT !.rr.returned =
                        IF Len(r.rr.results) = 0 THEN << >>
                        ELSE Diversify(r.rr.results, << >>, << >>, r.rr.topK,
                                       r.rr.similarityThreshold)]))
    /\ UNCHANGED faults
    /\ RerankerFrame

\* -------------------------------------------------- RagService.buildContext
\* the loop with  continue  in the place of  break
RECURSIVE BuildContextSkipping(_, _, _, _)
BuildContextSkipping(results, maxLength, totalLength, contextChunks) ==
    IF results = << >> THEN contextChunks
    ELSE LET chunkLength == Len(Head(results).text)
         IN IF totalLength + chunkLength > maxLength /\ Len(contextChunks) > 0
            THEN BuildContextSkipping(Tail(results), maxLength, totalLength,
                                      contextChunks)
            ELSE BuildContextSkipping(Tail(results), maxLength,
                                      totalLength + chunkLength,
                                      Append(contextChunks, Head(results).text))

\* the loop of buildContext over the results still to visit
RECURSIVE BuildContext(_, _, _, _)
BuildContext(results, maxLength, totalLength, contextChunks) ==
    IF results = << >> THEN contextChunks
    ELSE LET chunkLength == Len(Head(results).text)
         IN IF totalLength + chunkLength > maxLength /\ Len(contextChunks) > 0
            THEN contextChunks
            ELSE BuildContext(Tail(results), maxLength,
                              totalLength + chunkLength,
                              Append(contextChunks, Head(results).text))

\* buildContext(results) with this.maxContextLength
BC_Build(p) ==
    /\ At(p, "bc_build")
    /\ LET r == proc[p]
       IN Put(p, Pop([r EXCEPT !.q.contextChunks =
                        BuildContext(r.q.searchResults, r.q.maxContextLength,
                                     0, << >>)]))
    /\ UNCHANGED faults
    /\ RerankerFrame

\* ------------------------------------------------------------ query path
\* GuardrailsService.validateInput: the length check and the blocked keywords
\* (of which 'api key' stands for all)
ValidateInput(query) ==
    /\ Len(query) >= minLength
    /\ ~ Includes(ToLowerCase(query), << "a", "p", "i", " ", "k", "e", "y" >>)

\* the pageContent of the stored documents
PageContent(id) ==
    IF id = 1 THEN << "p", "i", "e" >>
    ELSE IF id = 2 THEN << "T", "e", "a", " ", "p", "i", "e" >>
    ELSE IF id = 3
    THEN << "p", "i", "e", " ", "t", "e", "a", " ", "p", "i", "e" >>
    ELSE << "h", "a", "m" >>

\* ConverterService.convertMilvusToRagSearchResults: the embedding is
\* undefined
ConvertMilvusToRagSearchResults(milvusResults) ==
    [i \in DOMAIN milvusResults |->
        [id |-> milvusResults[i].id, text |-> PageContent(milvusResults[i].id),
         score |-> milvusResults[i].score, embedding |-> {}]]

PipelineFrame ==
    UNCHANGED << now, remoteVars, collectionExistsCache, metadataCache,
                 nOps, ragVars >>

\* QueryController.query up to QueryService.query: a question without a valid
\* verdict is answered with BadRequestException
QC_Validate(p) ==
    /\ At(p, "qc_validate")
    /\ LET r == [proc[p] EXCEPT !.q.stages = Append(@, "validateInput")]
       IN IF ~ ValidateInput(r.q.question)
          THEN Put(p, Pop([r EXCEPT !.err = "blocked"]))
          ELSE Put(p, Call(r, "rq_embed", "qc_answered"))
    /\ UNCHANGED faults
    /\ PipelineFrame

\* QueryController.query after QueryService.query: validateOutput, or the
\* error is thrown on
QC_Answered(p) ==
    /\ At(p, "qc_answered")
    /\ LET r == proc[p]
       IN IF r.err # "none"
          THEN Put(p, Pop(r))
          ELSE Put(p, Pop([r EXCEPT !.q.stages = Append(@, "validateOutput")]))
    /\ UNCHANGED faults
    /\ PipelineFrame

\* QueryController.queryStream: redisService.getCachedResponse answers with a
\* cached response or with none
QT_Cache(p) ==
    /\ At(p, "qt_cache")
    /\ LET r == proc[p]
       IN \/ Put(p, Pop(r))
          \/ Put(p, Call(r, "rq_embed", "qt_answered"))
    /\ UNCHANGED faults
    /\ PipelineFrame

\* QueryController.queryStream after QueryService.query: the answer is cached
\* and streamed; an error is written to the stream
QT_Answered(p) ==
    /\ At(p, "qt_answered")
    /\ Put(p, Pop([proc[p] EXCEPT !.err = "none"]))
    /\ UNCHANGED faults
    /\ PipelineFrame

\* QueryController.queryMultiCollection: the loop over the collections
QX_Loop(p) ==
    /\ At(p, "qx_loop")
    /\ LET r == proc[p]
       IN IF r.q.todo = << >>
          THEN Put(p, Pop(r))
          ELSE Put(p, Call([r EXCEPT !.cname = Head(r.q.todo)],
                           "rq_embed", "qx_got"))
    /\ UNCHANGED faults
    /\ PipelineFrame

\* the answer or the error of the collection is pushed to results
QX_Got(p) ==
    /\ At(p, "qx_got")
    /\ LET r == proc[p]
       IN Put(p, Goto([r EXCEPT
                 !.q.answers = Append(@, << Head(r.q.todo), r.err >>),
                 !.q.todo = Tail(@), !.err = "none"], "qx_loop"))
    /\ UNCHANGED faults
    /\ PipelineFrame

\* QueryService.query and RagService.query up to
\* openaiService.generateEmbedding(question), then ensureCollectionLoaded
RQ_Embed(p) ==
    /\ At(p, "rq_embed")
    /\ LET r == [proc[p] EXCEPT !.q.stages = Append(@, "embedding"),
                                !.q.topKPerCollection = RAG_TOP_K]
       IN \/ /\ Put(p, [r EXCEPT !.pc = << "el_check", "rq_loaded",
                                           "qs_ragged" >> \o Tail(@)])
             /\ UNCHANGED faults
          \/ /\ faults < MaxFaults
             /\ faults' = faults + 1
             /\ Put(p, [r EXCEPT !.err = "embedding",
                                 !.pc = << "qs_ragged" >> \o Tail(@)])
    /\ PipelineFrame

\* RagService.query: milvusService.search
RQ_Loaded(p) ==
    /\ At(p, "rq_loaded")
    /\ LET r == proc[p]
       IN IF r.err # "none"
          THEN Put(p, Pop(r))
          ELSE Put(p, Call([r EXCEPT !.q.stages = Append(@, "search")],
                           "se_start", "rq_searched"))
    /\ UNCHANGED faults
    /\ PipelineFrame

\* RagService.query: the results are converted, buildContext runs on them
\* and openaiService.generateRagResponse is called with its chunks
RQ_Searched(p) ==
    /\ At(p, "rq_searched")
    /\ LET r == proc[p]
           searchResults == ConvertMilvusToRagSearchResults(r.q.results)
           contextChunks == BuildContext(searchResults, r.q.maxContextLength,
                                         0, << >>)
       IN IF r.err # "none"
          THEN Put(p, Pop(r))
          ELSE Put(p, Goto([r EXCEPT
                 !.q.searchResults = searchResults,
                 !.q.contextChunks = contextChunks,
                 !.q.completed = contextChunks,
                 !.q.stages = @ \o << "buildContext", "completion" >>],
                 "rq_generated"))
    /\ UNCHANGED faults
    /\ PipelineFrame

\* RagService.query: the answer of generateRagResponse; sources are the
\* search results
RQ_Generated(p) ==
    /\ At(p, "rq_generated")
    /\ LET r == proc[p]
       IN \/ /\ Put(p, Pop([r EXCEPT !.q.sources = r.q.searchResults]))
             /\ UNCHANGED faults
          \/ /\ faults < MaxFaults
             /\ faults' = faults + 1
             /\ Put(p, Pop([r EXCEPT !.err = "generate"]))
    /\ PipelineFrame

\* QueryService.query after RagService.query:
\* rerankerService.hybridRerank(question, ragResponse.sources, 5)
QS_Ragged(p) ==
    /\ At(p, "qs_ragged")
    /\ LET r == proc[p]
       IN IF r.err # "none"
          THEN Put(p, Pop(r))
          ELSE Put(p, Call([r EXCEPT
                 !.q.stages = Append(@, "rerank"),
                 !.rr = [NoRerank EXCEPT
                           !.strategy = "hybridRerank",
                           !.query = r.q.question,
                           !.results = r.q.sources,
                           !.topK = RerankTopK,
                           !.keywordWeight = Frac(3, 10),
                           !.semanticWeight = Frac(7, 10)]],
                 "hr_start", "qs_reranked"))
    /\ UNCHANGED faults
    /\ PipelineFrame

\* QueryService.query: sourceDocuments are the reranked sources
QS_Reranked(p) ==
    /\ At(p, "qs_reranked")
    /\ Put(p, Pop(proc[p]))
    /\ UNCHANGED faults
    /\ PipelineFrame

\* -------------------------------------------------------- MemoryService
MemoryFrame ==
    UNCHANGED << now, remoteVars, collectionExistsCache, metadataCache,
                 nOps, ragVars >>

\* the metadata of the record storeUserProfile inserts (the timestamp left
\* out): { userId, type: 'user_profile', ...profile }, where a key of
\* profile replaces the key written before it
ProfileMetadata(userId, profile) ==
    profile @@ [userId |-> userId, type |-> "user_profile"]

\* storeUserProfile: openaiService.generateEmbedding(profileText), then
\* ensureCollectionLoaded
SP_Embed(p) ==
    /\ At(p, "sp_embed")
    /\ LET r == proc[p]
       IN \/ /\ Put(p, Call([r EXCEPT !.cname = usersCollectionName],
                             "el_check", "sp_loaded"))
             /\ UNCHANGED faults
          \/ /\ faults < MaxFaults
             /\ faults' = faults + 1
             /\ Put(p, Pop([r EXCEPT !.err = "embedding"]))
    /\ MemoryFrame

\* storeUserProfile: insertDocuments of the record
SP_Loaded(p) ==
    /\ At(p, "sp_loaded")
    /\ LET r == proc[p]
       IN IF r.err # "none"
          THEN Put(p, Pop(r))
          ELSE Put(p, Goto([r EXCEPT
                              !.doc = ProfileMetadata(r.arg, r.updates)],
                           "id_start"))
    /\ UNCHANGED faults
    /\ MemoryFrame

\* getUserProfile: ensureCollectionLoaded
GP_Start(p) ==
    /\ At(p, "gp_start")
    /\ Put(p, Call([proc[p] EXCEPT !.cname = usersCollectionName],
                   "el_check", "gp_loaded"))
    /\ UNCHANGED faults
    /\ MemoryFrame

\* getUserProfile: generateEmbedding(userId), then the search with the
\* filter on metadata.userId; the catch block answers null
GP_Loaded(p) ==
    /\ At(p, "gp_loaded")
    /\ LET r == proc[p]
       IN IF r.err # "none"
          THEN /\ Put(p, Pop([r EXCEPT !.err = "none", !.meta = NoMeta]))
               /\ UNCHANGED faults
          ELSE \/ /\ Put(p, Call([r EXCEPT !.key = r.arg],
                                  "se_start", "gp_found"))
                  /\ UNCHANGED faults
               \/ /\ faults < MaxFaults
                  /\ faults' = faults + 1
                  /\ Put(p, Pop([r EXCEPT !.err = "none", !.meta = NoMeta]))
    /\ MemoryFrame

\* getUserProfile: results[0].metadata, or null
GP_Found(p) ==
    /\ At(p, "gp_found")
    /\ LET r == proc[p]
       IN IF r.err # "none"
          THEN Put(p, Pop([r EXCEPT !.err = "none", !.meta = NoMeta]))
          ELSE Put(p, Pop(r))
    /\ UNCHANGED faults
    /\ MemoryFrame

\* ------------------------------------------- GuardrailsService.validateInput
\* the alternatives of the SQLInjection pattern /('|(--)|;|\/\*|\*\/|xp_|sp_)/gi
SQLInjection ==
    { << "'" >>, << "-", "-" >>, << ";" >>, << "/", "*" >>, << "*", "/" >>,
      << "x", "p", "_" >>, << "s", "p", "_" >> }

\* the alternative that matches str at position i (from 1), if there is one
AlternativesAt(str, i) ==
    {alt \in SQLInjection :
        /\ i + Len(alt) - 1 <= Len(str)
        /\ ToLowerCase(SubSeq(str, i, i + Len(alt) - 1)) = alt}

\* RegExp.prototype.test of a pattern with the g flag whose lastIndex is
\* from: the search starts at from; a match leaves lastIndex at its end, a
\* failure (or from > length) leaves it at 0
TestFrom(str, from) ==
    LET at == {i \in (from + 1)..Len(str) : AlternativesAt(str, i) # {}}
    IN IF at = {}
       THEN [found |-> FALSE, lastIndex |-> 0]
       ELSE LET i == CHOOSE k \in at : \A j \in at : k <= j
                alt == CHOOSE a \in AlternativesAt(str, i) : TRUE
            IN [found |-> TRUE, lastIndex |-> i - 1 + Len(alt)]

\* guardrailsConfig.input.maxLength and the blockedKeywords a query over the
\* letters of the model can contain
InputMaxLength == 500
BlockedKeywords == { << "a", "p", "i", " ", "k", "e", "y" >> }

\* the violations validateInput(query) collects when no userId is given:
\* length, prompt injection, blocked keywords
Violations(query, injected) ==
    (IF Len(query) > InputMaxLength THEN << "too long" >> ELSE << >>)
    \o (IF Len(query) < minLength THEN << "too short" >> ELSE << >>)
    \o (IF injected THEN << "SQLInjection" >> ELSE << >>)
    \o (IF \E k \in BlockedKeywords : Includes(ToLowerCase(query), k)
        THEN << "blocked keyword" >> ELSE << >>)

\* validateInput(query): the method has no await and runs in one piece; the
\* verdict is kept in err ("none" for valid) and list (the violations)
VI_ValidateInput(p, query) ==
    /\ Idle(p)
    /\ nOps < MaxOps
    /\ nOps' = nOps + 1
    /\ LET t == TestFrom(query, lastIndex)
           v == Violations(query, t.found)
       IN /\ lastIndex' = t.lastIndex
          /\ proc' = [proc EXCEPT ![p] =
                [IdleProc EXCEPT !.op = "validateInput",
                                 !.q.question = query,
                                 !.list = v,
                                 !.err = IF v = << >> THEN "none"
                                         ELSE v[1]]]
    /\ UNCHANGED << now, remoteVars, collectionExistsCache, metadataCache,
                    faults, collectionsMetadataRecords,
                    collectionsMetadataCache, memoryUsers >>

\* ----------------------------------------------------- withRetryAndTimeout
RetryFrame ==
    UNCHANGED << now, remoteVars, collectionExistsCache, metadataCache,
                 nOps, faults, ragVars >>

RECURSIVE Pow2(_)
Pow2(k) == IF k = 0 THEN 1 ELSE 2 * Pow2(k - 1)

\* a delay that does not grow with the attempt
BackoffConstant(initialDelayMs, attempt) == initialDelayMs

\* initialDelayMs * Math.pow(2, attempt)
Backoff(initialDelayMs, attempt) == initialDelayMs * Pow2(attempt)

\* the value with which the call of fn of the given attempt resolves
ValueOf(attempt) == 10 + attempt

\* the head of the for loop: the next call of fn, or throw lastError
WR_Loop(p) ==
    /\ At(p, "wr_loop")
    /\ LET r == proc[p]
           w == r.wr
       IN IF w.attempt < w.maxRetries
          THEN Put(p, Goto(r, "wr_race"))
          ELSE Put(p, Pop([r EXCEPT !.wr.ended = "thrown",
                                    !.err = w.lastError.kind]))
    /\ RetryFrame

\* withTimeout: Promise.race of fn() and the timer of timeoutMs.  fn
\* resolves or rejects in time, or the timer fires first (fn settles late
\* or never); after a failure the delay is awaited unless the attempt was
\* the last
WR_Race(p) ==
    /\ At(p, "wr_race")
    /\ LET r == proc[p]
           w == r.wr
           failed(kind, t) ==
               LET f == [r EXCEPT
                          !.wr.outcomes = Append(@, kind),
                          !.wr.elapsed = @ + t,
                          !.wr.lastError = [kind |-> kind,
                                            attempt |-> w.attempt]]
               IN IF w.attempt < w.maxRetries - 1
                  THEN Goto(f, "wr_delay")
                  ELSE Goto([f EXCEPT !.wr.attempt = @ + 1], "wr_loop")
       IN \/ Put(p, Pop([r EXCEPT !.wr.outcomes = Append(@, "resolved"),
                                   !.wr.ended = "returned",
                                   !.wr.value = ValueOf(w.attempt),
                                   !.err = "none"]))
          \/ Put(p, failed("rejected", 0))
          \/ Put(p, failed("timeout", w.timeoutMs))
    /\ RetryFrame

\* the timer of the delay fires and the loop goes on
WR_Delay(p) ==
    /\ At(p, "wr_delay")
    /\ LET r == proc[p]
           w == r.wr
           delayMs == Backoff(w.initialDelayMs, w.attempt)
       IN Put(p, Goto([r EXCEPT !.wr.waited = Append(@, delayMs),
                                !.wr.elapsed = @ + delayMs,
                                !.wr.attempt = @ + 1], "wr_loop"))
    /\ RetryFrame

\* ------------------------------------------------- unanswered remote calls
\* the places where a method of the client is awaited outside
\* withRetryAndTimeout: createCollection, createIndex, getLoadingProgress,
\* loadCollection, insert and search
DirectCalls ==
    {"cc_create", "cc_index", "el_check", "el_load", "id_loaded", "se_loaded"}

\* the call awaited at such a place gets no response: nothing in the method
\* settles the promise, and whether the client itself gives up is not
\* decided here
NeverResponds(p) ==
    /\ proc[p].pc # << >>
    /\ Head(proc[p].pc) \in DirectCalls
    /\ Head(proc[p].pc) \in {"id_loaded", "se_loaded"} => proc[p].err = "none"
    /\ Put(p, Goto(proc[p], "pending"))
    /\ UNCHANGED << now, remoteVars, collectionExistsCache, metadataCache,
                    nOps, faults, ragVars >>

\* ------------------------------------- ConsumerService.handleDocumentIngestion
\* a catch block that throws the error on
IngestionCaughtRethrow(r) == Pop([r EXCEPT !.ingest = "skipped"])

\* the catch block of handleDocumentIngestion: the error is logged and the
\* document is skipped
IngestionCaught(r) == Pop([r EXCEPT !.ingest = "skipped", !.err = "none"])

IngestionFrame ==
    UNCHANGED << now, remoteVars, collectionExistsCache, metadataCache,
                 nOps, ragVars >>

\* getObject and the read of the stream, then RagService.processDocument up
\* to chunkerService.chunkText(document.text, {chunkSize, overlap})
HI_Fetch(p) ==
    /\ At(p, "hi_fetch")
    /\ LET r == proc[p]
       IN \/ /\ Put(p, [r EXCEPT !.pc = << "ct_loop", "pd_chunked",
                                           "hi_done" >> \o Tail(@)])
             /\ UNCHANGED faults
          \/ /\ faults < MaxFaults
             /\ faults' = faults + 1
             /\ Put(p, Goto([r EXCEPT !.err = "fetch"], "hi_done"))
    /\ IngestionFrame

\* processDocument: openaiService.generateEmbeddings(chunkTexts), then
\* ensureCollectionExists
PD_Chunked(p) ==
    /\ At(p, "pd_chunked")
    /\ LET r == proc[p]
       IN \/ /\ Put(p, Call(r, "en_start", "pd_ensured"))
             /\ UNCHANGED faults
          \/ /\ faults < MaxFaults
             /\ faults' = faults + 1
             /\ Put(p, Pop([r EXCEPT !.err = "embedding"]))
    /\ IngestionFrame

\* processDocument: ensureCollectionLoaded
PD_Ensured(p) ==
    /\ At(p, "pd_ensured")
    /\ LET r == proc[p]
       IN IF r.err # "none"
          THEN Put(p, Pop(r))
          ELSE Put(p, Call(r, "el_check", "pd_loaded"))
    /\ UNCHANGED faults
    /\ IngestionFrame

\* processDocument: insertDocuments(collectionName, docsToStore); its answer
\* or its error is the outcome of processDocument
PD_Loaded(p) ==
    /\ At(p, "pd_loaded")
    /\ LET r == proc[p]
       IN IF r.err # "none"
          THEN Put(p, Pop(r))
          ELSE Put(p, Goto([r EXCEPT !.embedding = EMBEDDING_DIM], "id_start"))
    /\ UNCHANGED faults
    /\ IngestionFrame

\* handleDocumentIngestion: the stored count is logged, or the catch block
\* runs
HI_Done(p) ==
    /\ At(p, "hi_done")
    /\ LET r == proc[p]
       IN IF r.err # "none"
          THEN Put(p, IngestionCaught(r))
          ELSE Put(p, Pop([r EXCEPT !.ingest = "stored"]))
    /\ UNCHANGED faults
    /\ IngestionFrame

\* ------------------------------------------------------------- requests
\* CollectionsMetadataService.deleteCollectionMetadata: the entry of the
\* cache is removed, the reserved collection is left as it is
DeleteCollectionMetadata(p, n) ==
    /\ Begin(p, "deleteCollectionMetadata", n, << >>)
    /\ collectionsMetadataCache' = MapDelete(collectionsMetadataCache, n)
    /\ UNCHANGED << now, remoteVars, collectionExistsCache, metadataCache,
                    faults, collectionsMetadataRecords, lastIndex,
                    memoryUsers >>

CreateCollectionMetadata(p, n) ==
    /\ Begin(p, "createCollectionMetadata", n, << "rc_start" >>)
    /\ UNCHANGED << now, remoteVars, collectionExistsCache, metadataCache,
                    faults, ragVars >>

\* CollectionsMetadataService.getCollectionMetadata
GetCollectionMetadataOfService(p, n) ==
    /\ Idle(p)
    /\ nOps < MaxOps
    /\ nOps' = nOps + 1
    /\ Put(p, [IdleProc EXCEPT
                !.pc = << "rg_start" >>,
                !.op = "collectionsMetadata.getCollectionMetadata",
                !.arg = n, !.cname = n, !.key = n,
                !.prev = [op |-> proc[p].op, name |-> proc[p].arg,
                          err |-> proc[p].err, exists |-> proc[p].exists,
                          calls |-> proc[p].calls, creates |-> proc[p].creates,
                          wrote |-> proc[p].wrote]])
    /\ UNCHANGED << now, remoteVars, collectionExistsCache, metadataCache,
                    faults, ragVars >>

CollectionExists(p, n) ==
    /\ Begin(p, "collectionExists", n, << "ce_cache" >>)
    /\ UNCHANGED << now, remoteVars, collectionExistsCache, metadataCache, faults >>
    /\ UNCHANGED ragVars

EnsureCollectionExists(p, n) ==
    /\ Begin(p, "ensureCollectionExists", n, << "en_start" >>)
    /\ UNCHANGED << now, remoteVars, collectionExistsCache, metadataCache, faults >>
    /\ UNCHANGED ragVars

\* CollectionsMetadataService, constructor: initializeMetadataCollection
InitializeMetadataCollection(p) ==
    /\ Begin(p, "initializeMetadataCollection", metadataCollectionName,
             << "en_start" >>)
    /\ UNCHANGED << now, remoteVars, collectionExistsCache, metadataCache, faults >>
    /\ UNCHANGED ragVars

\* MilvusModule.onModuleInit: collectionManager.initialize()
Initialize(p) ==
    /\ Begin(p, "initialize", METADATA_COLLECTION, << "in_start" >>)
    /\ UNCHANGED << now, remoteVars, collectionExistsCache, metadataCache, faults >>
    /\ UNCHANGED ragVars

ListCollections(p) ==
    /\ Begin(p, "listCollections", "", << "lc_start" >>)
    /\ UNCHANGED << now, remoteVars, collectionExistsCache, metadataCache, faults >>
    /\ UNCHANGED ragVars

CreateCollection(p, n) ==
    /\ Begin(p, "createCollection", n, << "mc_start" >>)
    /\ UNCHANGED << now, remoteVars, collectionExistsCache, metadataCache, faults >>
    /\ UNCHANGED ragVars

DeleteCollection(p, n) ==
    /\ Begin(p, "deleteCollection", n, << "dc_drop" >>)
    /\ UNCHANGED << now, remoteVars, collectionExistsCache, metadataCache, faults >>
    /\ UNCHANGED ragVars

\* the update payloads: a new tag, and payloads that carry name or vectorDim
Updates ==
    { [tags |-> "edited"], [name |-> "other"], [vectorDim |-> VECTOR_DIM * 2] }

UpdateCollectionMetadata(p, n, u) ==
    /\ Idle(p)
    /\ nOps < MaxOps
    /\ nOps' = nOps + 1
    /\ Put(p, [IdleProc EXCEPT
                !.pc = << "um_start" >>, !.op = "updateCollectionMetadata",
                !.arg = n, !.cname = n, !.updates = u,
                !.prev = [op |-> proc[p].op, name |-> proc[p].arg,
                          err |-> proc[p].err, exists |-> proc[p].exists,
                          calls |-> proc[p].calls, creates |-> proc[p].creates,
                          wrote |-> proc[p].wrote]])
    /\ UNCHANGED << now, remoteVars, collectionExistsCache, metadataCache, faults >>
    /\ UNCHANGED ragVars

GetCollectionMetadata(p, n) ==
    /\ Idle(p)
    /\ nOps < MaxOps
    /\ nOps' = nOps + 1
    /\ Put(p, [IdleProc EXCEPT
                !.pc = << "gm_start" >>, !.op = "getCollectionMetadata",
                !.arg = n, !.cname = n, !.key = n,
                !.prev = [op |-> proc[p].op, name |-> proc[p].arg,
                          err |-> proc[p].err, exists |-> proc[p].exists,
                          calls |-> proc[p].calls, creates |-> proc[p].creates,
                          wrote |-> proc[p].wrote]])
    /\ UNCHANGED << now, remoteVars, collectionExistsCache, metadataCache, faults >>
    /\ UNCHANGED ragVars

LoadCollection(p, n) ==
    /\ Begin(p, "loadCollection", n, << "el_load" >>)
    /\ UNCHANGED << now, remoteVars, collectionExistsCache, metadataCache, faults >>
    /\ UNCHANGED ragVars

EnsureCollectionLoaded(p, n) ==
    /\ Begin(p, "ensureCollectionLoaded", n, << "el_check" >>)
    /\ UNCHANGED << now, remoteVars, collectionExistsCache, metadataCache, faults >>
    /\ UNCHANGED ragVars

UnloadCollection(p, n) ==
    /\ Begin(p, "unloadCollection", n, << "ul_release" >>)
    /\ UNCHANGED << now, remoteVars, collectionExistsCache, metadataCache, faults >>
    /\ UNCHANGED ragVars

\* DELETE /collections/:name
DeleteCollectionHandler(p, n) ==
    /\ Begin(p, "deleteCollectionHandler", n, << "hd_start" >>)
    /\ UNCHANGED << now, remoteVars, collectionExistsCache, metadataCache, faults >>
    /\ UNCHANGED ragVars

Done(p, o) == Idle(p) /\ proc[p].op = o

\* ------------------------------------------------------- specifications
Init ==
    /\ now = 0
    /\ remoteCollections \in SUBSET UserNames
    /\ remoteIndexed = remoteCollections
    /\ remoteLoaded = {}
    /\ metaRecords = << >>
    /\ collectionExistsCache = << >>
    /\ metadataCache = << >>
    /\ proc = [p \in Procs |-> IdleProc]
    /\ nOps = 0
    /\ faults = 0
    /\ collectionsMetadataRecords = << >>
    /\ collectionsMetadataCache = << >>
    /\ lastIndex = 0
    /\ memoryUsers = << >>

MilvusStep(p) ==
    \/ CE_Cache(p)
    \/ CE_Call(p)
    \/ CE_Resp(p)
    \/ EN_Start(p)
    \/ EN_Checked(p)
    \/ CC_Create(p)
    \/ CC_Index(p)

LoadInsertSearchStep(p) ==
    \/ EL_Check(p)
    \/ EL_Load(p)
    \/ ID_Start(p)
    \/ ID_Ensured(p)
    \/ ID_Loaded(p)
    \/ SE_Start(p)
    \/ SE_Ensured(p)
    \/ SE_Loaded(p)

ExistenceRequest(p) ==
    \E n \in UserNames :
        \/ CollectionExists(p, n)
        \/ EnsureCollectionExists(p, n)
        \/ ClearCollectionExistsCache(p, n)

\* two callers, one request each, running concurrently
Next ==
    \/ Tick
    \/ \E p \in Procs : proc[p].op = "none" /\ ExistenceRequest(p)
    \/ \E p \in Procs : MilvusStep(p)

Spec == Init /\ [][Next]_vars

\* one caller, whose requests run one after the other
NextSeq ==
    \/ Tick
    \/ ExistenceRequest("p1")
    \/ MilvusStep("p1")

SpecSeq == Init /\ [][NextSeq]_vars

ManagerStep(p) ==
    \/ GM_Start(p)
    \/ GM_Retrieved(p)
    \/ LC_Start(p)
    \/ LC_Loop(p)
    \/ LC_Got(p)
    \/ LC_Registered(p)
    \/ MC_Start(p)
    \/ MC_Ensured(p)
    \/ MC_Stored(p)
    \/ DC_Drop(p)
    \/ DC_Meta(p)
    \/ IN_Start(p)
    \/ IN_Ensured(p)
    \/ LM_Loop(p)
    \/ LM_Retrieved(p)
    \/ LM_Registered(p)

ManagerRequest(p) ==
    \/ InitializeMetadataCollection(p)
    \/ Initialize(p)
    \/ ListCollections(p)
    \/ \E n \in UserNames : CreateCollection(p, n) \/ DeleteCollection(p, n)

\* the collection manager: startup and the requests of one caller, one after
\* the other
NextManager ==
    \/ Tick
    \/ ManagerRequest("p1")
    \/ MilvusStep("p1")
    \/ LoadInsertSearchStep("p1")
    \/ ManagerStep("p1")

SpecManager == Init /\ [][NextManager]_vars

\* the application after a start in which initialize() found the reserved
\* collection and the records of the collections created earlier: the
\* existence of the reserved collection is cached, the reserved collection
\* is loaded by the searches of loadMetadata, the metadata is cached
InitStarted ==
    /\ now = 0
    /\ \E S \in SUBSET UserNames :
        /\ remoteCollections = S \cup {METADATA_COLLECTION}
        /\ metaRecords = [i \in 1..Len(Listing(S)) |-> Created(Listing(S)[i])]
        /\ metadataCache = [n \in S |-> Created(n)]
    /\ remoteIndexed = remoteCollections
    /\ remoteLoaded = {METADATA_COLLECTION}
    /\ collectionExistsCache =
         (METADATA_COLLECTION :> [exists |-> TRUE, timestamp |-> 0])
    /\ proc = [p \in Procs |-> IdleProc]
    /\ nOps = 0
    /\ faults = 0
    /\ collectionsMetadataRecords = << >>
    /\ collectionsMetadataCache = << >>
    /\ lastIndex = 0
    /\ memoryUsers = << >>

\* the steps of collectionExists alone
ExistsStep(p) ==
    \/ CE_Cache(p)
    \/ CE_Call(p)
    \/ CE_Resp(p)

DeleteStep(p) ==
    \/ DC_Drop(p)
    \/ DC_Meta(p)
    \/ HD_Start(p)
    \/ HD_Checked(p)
    \/ HD_Deleted(p)

\* deletes of one caller, existence checks of both
NextDelete ==
    \/ Tick
    \/ \E n \in UserNames :
        \/ DeleteCollection("p1", n)
        \/ DeleteCollectionHandler("p1", n)
        \/ \E p \in Procs : CollectionExists(p, n)
    \/ \E p \in Procs : ExistsStep(p) \/ DeleteStep(p)

SpecDelete == InitStarted /\ [][NextDelete]_vars

\* the steps of the metadata operations (those of initialize excepted)
MetadataStep(p) ==
    \/ GM_Start(p)
    \/ GM_Retrieved(p)
    \/ LC_Start(p)
    \/ LC_Loop(p)
    \/ LC_Got(p)
    \/ LC_Registered(p)
    \/ MC_Start(p)
    \/ MC_Ensured(p)
    \/ MC_Stored(p)
    \/ DC_Drop(p)
    \/ DC_Meta(p)
    \/ UM_Start(p)
    \/ UM_Got(p)
    \/ UM_Stored(p)

MetadataRequest(p) ==
    \/ ListCollections(p)
    \/ \E n \in UserNames :
        \/ CreateCollection(p, n)
        \/ DeleteCollection(p, n)
        \/ GetCollectionMetadata(p, n)
        \/ \E u \in Updates : UpdateCollectionMetadata(p, n, u)

\* the metadata operations of the collection manager after startup, one
\* caller, one request after the other
NextMetadata ==
    \/ Tick
    \/ MetadataRequest("p1")
    \/ MilvusStep("p1")
    \/ LoadInsertSearchStep("p1")
    \/ MetadataStep("p1")

SpecMetadata == InitStarted /\ [][NextMetadata]_vars

StatusRequest(p) ==
    \E n \in UserNames :
        \/ CreateCollection(p, n)
        \/ LoadCollection(p, n)
        \/ EnsureCollectionLoaded(p, n)
        \/ UnloadCollection(p, n)
        \/ GetCollectionMetadata(p, n)

\* create, load, unload and the status that getCollectionMetadata reports,
\* one caller, one request after the other
NextStatus ==
    \/ Tick
    \/ StatusRequest("p1")
    \/ MilvusStep("p1")
    \/ LoadInsertSearchStep("p1")
    \/ UL_Release("p1")
    \/ GM_Start("p1")
    \/ GM_Retrieved("p1")
    \/ MC_Start("p1")
    \/ MC_Ensured("p1")
    \/ MC_Stored("p1")

SpecStatus == InitStarted /\ [][NextStatus]_vars

\* CollectionsMetadataService after a start: its reserved collection exists
\* and holds the records stored earlier, its cache is empty; the existence
\* cache holds what the constructor's ensureCollectionExists found
InitCollectionsMetadata ==
    /\ now = 0
    /\ \E S \in SUBSET UserNames :
        /\ remoteCollections = S \cup {metadataCollectionName}
        /\ collectionsMetadataRecords =
             [i \in 1..Len(Listing(S)) |-> Created(Listing(S)[i])]
    /\ remoteIndexed = remoteCollections
    /\ remoteLoaded = {}
    /\ metaRecords = << >>
    /\ \E e \in BOOLEAN :
        collectionExistsCache =
            (metadataCollectionName :> [exists |-> e, timestamp |-> 0])
    /\ metadataCache = << >>
    /\ collectionsMetadataCache = << >>
    /\ lastIndex = 0
    /\ memoryUsers = << >>
    /\ proc = [p \in Procs |-> IdleProc]
    /\ nOps = 0
    /\ faults = 0

CollectionsMetadataStep(p) ==
    \/ RG_Start(p)
    \/ RG_Loaded(p)
    \/ RG_Found(p)
    \/ RC_Start(p)
    \/ RC_Loaded(p)
    \/ RC_Stored(p)

CollectionsMetadataRequest(p) ==
    \E n \in UserNames :
        \/ CreateCollectionMetadata(p, n)
        \/ GetCollectionMetadataOfService(p, n)
        \/ DeleteCollectionMetadata(p, n)

\* the metadata operations of CollectionsMetadataService, one caller, one
\* request after the other
NextCollectionsMetadata ==
    \/ Tick
    \/ CollectionsMetadataRequest("p1")
    \/ MilvusStep("p1")
    \/ LoadInsertSearchStep("p1")
    \/ CollectionsMetadataStep("p1")

SpecCollectionsMetadata ==
    InitCollectionsMetadata /\ [][NextCollectionsMetadata]_vars

\* everything but the chunker call of p1 at rest
ChunkerInit(call) ==
    /\ now = 0
    /\ remoteCollections = {}
    /\ remoteIndexed = {}
    /\ remoteLoaded = {}
    /\ metaRecords = << >>
    /\ collectionExistsCache = << >>
    /\ metadataCache = << >>
    /\ collectionsMetadataRecords = << >>
    /\ collectionsMetadataCache = << >>
    /\ lastIndex = 0
    /\ memoryUsers = << >>
    /\ nOps = 0
    /\ faults = 0
    /\ proc = [p \in Procs |-> IF p = "p1" THEN call ELSE IdleProc]

\* chunkText(text, {chunkSize, overlap, separator}) on entry to its loop
InitChunkText ==
    \E t \in Texts, sep \in Separators, cs \in ChunkSizes, ov \in Overlaps :
        ChunkerInit([IdleProc EXCEPT
            !.op = "chunkText", !.pc = << "ct_loop" >>,
            !.ck = [NoChunking EXCEPT
                      !.text = t, !.separator = sep, !.chunkSize = cs,
                      !.overlap = ov, !.parts = Split(t, sep)]])

NextChunkText == CT_Part("p1") \/ CT_Finish("p1")

SpecChunkText == InitChunkText /\ [][NextChunkText]_vars

\* chunkByCharCount(text, chunkSize, overlap) on entry to its loop
InitChunkByCharCount ==
    \E t \in Texts, cs \in ChunkSizes, ov \in Overlaps :
        ChunkerInit([IdleProc EXCEPT
            !.op = "chunkByCharCount", !.pc = << "cb_loop" >>,
            !.ck = [NoChunking EXCEPT
                      !.text = t, !.chunkSize = cs, !.overlap = ov]])

NextChunkByCharCount == CB_Iterate("p1") \/ CB_Return("p1")

SpecChunkByCharCount == InitChunkByCharCount /\ [][NextChunkByCharCount]_vars

\* the lists of collections a query names
CollectionLists ==
    UNION { [1..k -> QueryNames] : k \in 1..Cardinality(QueryNames) }

\* RagService.queryMultipleCollections(question, collections,
\* topKPerCollection), with defaultTopK as configured
QueryMultipleCollections(p) ==
    /\ proc[p].op = "none"
    /\ nOps < MaxOps
    /\ nOps' = nOps + 1
    /\ \E cs \in CollectionLists, per \in 1..MaxPerCollection, k \in 1..MaxTopK :
        Put(p, [IdleProc EXCEPT
                 !.pc = << "qm_start" >>, !.op = "queryMultipleCollections",
                 !.q = [NoQuery EXCEPT !.collections = cs, !.todo = cs,
                                       !.topKPerCollection = per,
                                       !.defaultTopK = k]])
    /\ UNCHANGED << now, remoteVars, collectionExistsCache, metadataCache,
                    faults, ragVars >>

\* the collections of the queries, some of them missing
InitQuery ==
    /\ now = 0
    /\ remoteCollections \in SUBSET QueryNames
    /\ remoteIndexed = remoteCollections
    /\ remoteLoaded \in SUBSET remoteCollections
    /\ metaRecords = << >>
    /\ collectionExistsCache = << >>
    /\ metadataCache = << >>
    /\ collectionsMetadataRecords = << >>
    /\ collectionsMetadataCache = << >>
    /\ lastIndex = 0
    /\ memoryUsers = << >>
    /\ proc = [p \in Procs |-> IdleProc]
    /\ nOps = 0
    /\ faults = 0

\* one query; ensureCollectionLoaded fails for a missing collection, so the
\* search never has to create one
NextQuery ==
    \/ Tick
    \/ QueryMultipleCollections("p1")
    \/ ExistsStep("p1")
    \/ EN_Start("p1")
    \/ EN_Checked("p1")
    \/ EL_Check("p1")
    \/ EL_Load("p1")
    \/ SE_Start("p1")
    \/ SE_Ensured("p1")
    \/ SE_Loaded("p1")
    \/ QM_Start("p1")
    \/ QM_Loop("p1")
    \/ QM_Loaded("p1")
    \/ QM_Searched("p1")
    \/ QM_Answer("p1")

SpecQuery == InitQuery /\ [][NextQuery]_vars

\* the passages handed to the reranker: an id, the text and the optional
\* embedding
Passages ==
    { [id |-> 1, text |-> << "p", "i", "e" >>, embedding |-> {<< 1, 0 >>}],
      [id |-> 2, text |-> << "T", "e", "a", " ", "p", "i", "e" >>,
       embedding |-> {<< 3, 4 >>}],
      [id |-> 3, text |-> << "p", "i", "e", " ", "t", "e", "a", " ", "p", "i", "e" >>,
       embedding |-> {}],
      [id |-> 4, text |-> << "h", "a", "m" >>, embedding |-> {<< 4, 3 >>}],
      [id |-> 5, text |-> << >>, embedding |-> {<< >>}],
      [id |-> 6, text |-> << "p", "i", "e", " ", "p", "i", "e" >>,
       embedding |-> {<< 1, 0 >>}] }

ResultLists == UNION { [1..k -> Passages] : k \in 0..MaxResults }

Queries ==
    { << "P", "i", "e", " ", "t", "e", "a" >>,
      << "p", "i", "e", " ", " ", "a" >> }

\* keywordWeight and semanticWeight: the defaults 0.3 and 0.7, and 1 and 1
Weights == { << Frac(3, 10), Frac(7, 10) >>, << Frac(1, 1), Frac(1, 1) >> }

\* similarityThreshold: the default 0.8, 0.5 and -0.5
Thresholds == { Frac(8, 10), Frac(1, 2), Frac(-1, 2) }

\* a call of one of the four strategies, on entry
InitReranker ==
    \E results \in ResultLists, topK \in 0..MaxRerankTopK :
        LET call(entry, strategy, query, w, t) ==
              [IdleProc EXCEPT
                 !.op = strategy, !.pc = << entry >>,
                 !.rr = [NoRerank EXCEPT
                           !.strategy = strategy, !.query = query,
                           !.results = results, !.topK = topK,
                           !.keywordWeight = w[1], !.semanticWeight = w[2],
                           !.similarityThreshold = t]]
            defaults == << Frac(3, 10), Frac(7, 10) >>
        IN \/ \E query \in Queries :
                \/ ChunkerInit(call("rk_rerank", "rerank", query, defaults,
                                    Frac(8, 10)))
                \/ ChunkerInit(call("sr_start", "semanticRerank", query,
                                    defaults, Frac(8, 10)))
                \/ \E w \in Weights :
                     ChunkerInit(call("hr_start", "hybridRerank", query, w,
                                      Frac(8, 10)))
           \/ \E t \in Thresholds :
                ChunkerInit(call("dr_select", "diversityRerank", << >>,
                                 defaults, t))

NextReranker ==
    \/ RK_Rerank("p1")
    \/ SR_Start("p1")
    \/ SR_Embedded("p1")
    \/ HR_Start("p1")
    \/ HR_Embedded("p1")
    \/ DR_Select("p1")

SpecReranker == InitReranker /\ [][NextReranker]_vars

\* buildContext on every list of passages and every maxContextLength
InitBuildContext ==
    \E results \in ResultLists, maxLength \in 0..MaxContextLength :
        ChunkerInit([IdleProc EXCEPT
            !.op = "buildContext", !.pc = << "bc_build" >>,
            !.q = [NoQuery EXCEPT !.searchResults = results,
                                  !.maxContextLength = maxLength]])

NextBuildContext == BC_Build("p1")

SpecBuildContext == InitBuildContext /\ [][NextBuildContext]_vars

\* the questions asked: one that passes validateInput, one that does not
Questions ==
    { << "P", "i", "e", " ", "t", "e", "a" >>,
      << "a", "p", "i", " ", "k", "e", "y" >> }

\* a request on the query path: POST /query, POST /query/stream or
\* POST /query/multi-collection
QueryRequest(p, o, entry, collections) ==
    /\ proc[p].op = "none"
    /\ nOps < MaxOps
    /\ nOps' = nOps + 1
    /\ \E question \in Questions :
        Put(p, [IdleProc EXCEPT
                 !.pc = << entry >>, !.op = o, !.cname = Head(collections),
                 !.q = [NoQuery EXCEPT
                          !.question = question,
                          !.collections = collections, !.todo = collections,
                          !.maxContextLength = MaxContextLength]])
    /\ UNCHANGED << now, remoteVars, collectionExistsCache, metadataCache,
                    faults, ragVars >>

Query(p) == QueryRequest(p, "query", "qc_validate", << "docs" >>)

QueryStream(p) == QueryRequest(p, "queryStream", "qt_cache", << "docs" >>)

QueryMultiCollection(p) ==
    \E cs \in CollectionLists :
        QueryRequest(p, "queryMultiCollection", "qx_loop", cs)

PipelineStep(p) ==
    \/ QC_Validate(p)
    \/ QC_Answered(p)
    \/ QT_Cache(p)
    \/ QT_Answered(p)
    \/ QX_Loop(p)
    \/ QX_Got(p)
    \/ RQ_Embed(p)
    \/ RQ_Loaded(p)
    \/ RQ_Searched(p)
    \/ RQ_Generated(p)
    \/ QS_Ragged(p)
    \/ QS_Reranked(p)
    \/ HR_Start(p)
    \/ HR_Embedded(p)

\* one request on the query path over an existing vector database
NextPipeline ==
    \/ Query("p1")
    \/ QueryStream("p1")
    \/ QueryMultiCollection("p1")
    \/ PipelineStep("p1")
    \/ ExistsStep("p1")
    \/ EN_Start("p1")
    \/ EN_Checked("p1")
    \/ EL_Check("p1")
    \/ EL_Load("p1")
    \/ SE_Start("p1")
    \/ SE_Ensured("p1")
    \/ SE_Loaded("p1")

SpecPipeline == InitQuery /\ [][NextPipeline]_vars

\* doc.embedding.length of the document to insert, 0 for a missing embedding
EmbeddingLengths == {0, EMBEDDING_DIM, 4 * EMBEDDING_DIM}

\* MilvusService.insertDocuments(n, [document])
InsertDocuments(p, n) ==
    /\ Idle(p)
    /\ nOps < MaxOps
    /\ nOps' = nOps + 1
    /\ \E e \in EmbeddingLengths :
        Put(p, [IdleProc EXCEPT !.pc = << "id_start" >>,
                                !.op = "insertDocuments", !.arg = n,
                                !.cname = n, !.embedding = e])
    /\ UNCHANGED << now, remoteVars, collectionExistsCache, metadataCache,
                    faults, ragVars >>

\* MilvusService.search(n, embedding, RAG_TOP_K)
Search(p, n) ==
    /\ Idle(p)
    /\ nOps < MaxOps
    /\ nOps' = nOps + 1
    /\ Put(p, [IdleProc EXCEPT !.pc = << "se_start" >>, !.op = "search",
                               !.arg = n, !.cname = n,
                               !.q.topKPerCollection = RAG_TOP_K])
    /\ UNCHANGED << now, remoteVars, collectionExistsCache, metadataCache,
                    faults, ragVars >>

\* one caller of collectionExists, insertDocuments and search, and a vector
\* database that may leave a call unanswered
NextRemoteCalls ==
    \/ Tick
    \/ CollectionExists("p1", "docs")
    \/ InsertDocuments("p1", "docs")
    \/ Search("p1", "docs")
    \/ MilvusStep("p1")
    \/ LoadInsertSearchStep("p1")
    \/ NeverResponds("p1")

\* every step that can be taken is taken in the end
SpecRemoteCalls ==
    InitQuery /\ [][NextRemoteCalls]_vars /\ WF_vars(NextRemoteCalls)

\* the texts of the documents of a batch
DocumentTexts == { << "a" >>, << "a", "|", "a" >> }

\* a handler has thrown: the promise the controller dropped is rejected and
\* the consumer stops
Raised ==
    \E q \in Procs :
        /\ Idle(q)
        /\ proc[q].op = "handleDocumentIngestion"
        /\ proc[q].err # "none"

\* the handlers that have skipped their document
Skipped ==
    {q \in Procs : Idle(q) /\ proc[q].ingest = "skipped"}

\* ConsumerController.handleDocumentIngestion: the message of a batch is
\* handed to the service, which is not awaited
HandleDocumentIngestion(p) ==
    /\ proc[p].op = "none"
    /\ ~ Raised
    /\ nOps < MaxOps
    /\ nOps' = nOps + 1
    /\ \E text \in DocumentTexts :
        Put(p, [IdleProc EXCEPT
                 !.pc = << "hi_fetch" >>, !.op = "handleDocumentIngestion",
                 !.arg = "docs", !.cname = "docs", !.after = Skipped,
                 !.ck = [NoChunking EXCEPT
                           !.text = text, !.separator = << "|" >>,
                           !.chunkSize = MaxChunkSize - 1, !.overlap = 1,
                           !.parts = Split(text, << "|" >>)]])
    /\ UNCHANGED << now, remoteVars, collectionExistsCache, metadataCache,
                    faults, ragVars >>

IngestionStep(p) ==
    \/ HI_Fetch(p)
    \/ CT_Part(p)
    \/ CT_Finish(p)
    \/ PD_Chunked(p)
    \/ PD_Ensured(p)
    \/ PD_Loaded(p)
    \/ HI_Done(p)
    \/ MilvusStep(p)
    \/ EL_Check(p)
    \/ EL_Load(p)
    \/ ID_Start(p)
    \/ ID_Ensured(p)
    \/ ID_Loaded(p)

\* a batch of two messages for the collection 'docs', which exists or not
InitIngestion ==
    /\ now = 0
    /\ remoteCollections \in SUBSET {"docs"}
    /\ remoteIndexed = remoteCollections
    /\ remoteLoaded = {}
    /\ metaRecords = << >>
    /\ collectionExistsCache = << >>
    /\ metadataCache = << >>
    /\ collectionsMetadataRecords = << >>
    /\ collectionsMetadataCache = << >>
    /\ lastIndex = 0
    /\ memoryUsers = << >>
    /\ proc = [p \in Procs |-> IdleProc]
    /\ nOps = 0
    /\ faults = 0

NextIngestion ==
    \/ \E p \in Procs : HandleDocumentIngestion(p)
    \/ \E p \in Procs : IngestionStep(p)

SpecIngestion == InitIngestion /\ [][NextIngestion]_vars

\* MilvusService.upsertDocuments(n, [document])
UpsertDocuments(p, n) ==
    /\ Begin(p, "upsertDocuments", n, << "ud_start" >>)
    /\ UNCHANGED << now, remoteVars, collectionExistsCache, metadataCache,
                    faults, ragVars >>

\* one caller that inserts into, searches and upserts into 'docs' while
\* another unloads the collection
NextEnsureLoaded ==
    \/ InsertDocuments("p1", "docs")
    \/ Search("p1", "docs")
    \/ UpsertDocuments("p1", "docs")
    \/ MilvusStep("p1")
    \/ LoadInsertSearchStep("p1")
    \/ UD_Start("p1")
    \/ UD_Ensured("p1")
    \/ UD_Loaded("p1")
    \/ UnloadCollection("p2", "docs")
    \/ UL_Release("p2")

SpecEnsureLoaded == InitQuery /\ [][NextEnsureLoaded]_vars

\* withRetryAndTimeout(fn, {maxRetries, timeoutMs, initialDelayMs}) on entry
\* to its loop
RetryLimits == 1..MaxRetries
Timeouts == {15000, 30000}
InitialDelays == {0, 500}

InitRetry ==
    \E mr \in RetryLimits, t \in Timeouts, d \in InitialDelays :
        ChunkerInit([IdleProc EXCEPT
            !.op = "withRetryAndTimeout", !.pc = << "wr_loop" >>,
            !.wr = [NoRetry EXCEPT !.maxRetries = mr, !.timeoutMs = t,
                                   !.initialDelayMs = d]])

NextRetry == WR_Loop("p1") \/ WR_Race("p1") \/ WR_Delay("p1")

\* both timers are setTimeout calls of the runtime: they fire
SpecRetry == InitRetry /\ [][NextRetry]_vars /\ WF_vars(NextRetry)

\* one caller that updates and reads the metadata of the tracked collections
\* while the metadata cache is cleared at any moment
NextClearCache ==
    \/ Tick
    \/ ClearCache
    \/ \E n \in UserNames :
        \/ GetCollectionMetadata("p1", n)
        \/ \E u \in Updates : UpdateCollectionMetadata("p1", n, u)
    \/ ExistsStep("p1")
    \/ EN_Start("p1")
    \/ EN_Checked("p1")
    \/ LoadInsertSearchStep("p1")
    \/ GM_Start("p1")
    \/ GM_Retrieved("p1")
    \/ UM_Start("p1")
    \/ UM_Got("p1")
    \/ UM_Stored("p1")

SpecClearCache == InitStarted /\ [][NextClearCache]_vars

\* POST /collections/sync/all and GET /collections: the cache is cleared at
\* any moment and one caller lists the collections
NextSync ==
    \/ Tick
    \/ ClearCache
    \/ ListCollections("p1")
    \/ ExistsStep("p1")
    \/ EN_Start("p1")
    \/ EN_Checked("p1")
    \/ LoadInsertSearchStep("p1")
    \/ GM_Start("p1")
    \/ GM_Retrieved("p1")
    \/ LC_Start("p1")
    \/ LC_Loop("p1")
    \/ LC_Got("p1")
    \/ LC_Registered("p1")

SpecSync == InitStarted /\ [][NextSync]_vars

\* the queries validated: the strings of up to MaxQueryLen characters
QueryChars == {"a", ";", "-", " "}
InputQueries == UNION { [1..k -> QueryChars] : k \in 0..MaxQueryLen }

\* two callers of validateInput, no userId
NextValidateInput ==
    \E p \in Procs, query \in InputQueries : VI_ValidateInput(p, query)

SpecValidateInput == ChunkerInit(IdleProc) /\ [][NextValidateInput]_vars

\* the users and the profiles stored: plain preferences, and profiles that
\* carry a key userId or type of their own
UserIds == {"alice", "bob"}
Profiles ==
    { [theme |-> "dark"], [userId |-> "bob"], [type |-> "session"] }

StoreUserProfile(p, userId, profile) ==
    /\ Idle(p)
    /\ nOps < MaxOps
    /\ nOps' = nOps + 1
    /\ Put(p, [IdleProc EXCEPT !.pc = << "sp_embed" >>,
                               !.op = "storeUserProfile", !.arg = userId,
                               !.updates = profile])
    /\ UNCHANGED << now, remoteVars, collectionExistsCache, metadataCache,
                    faults, ragVars >>

GetUserProfile(p, userId) ==
    /\ Idle(p)
    /\ nOps < MaxOps
    /\ nOps' = nOps + 1
    /\ Put(p, [IdleProc EXCEPT !.pc = << "gp_start" >>,
                               !.op = "getUserProfile", !.arg = userId])
    /\ UNCHANGED << now, remoteVars, collectionExistsCache, metadataCache,
                    faults, ragVars >>

\* the memory collections exist after initializeCollections
InitMemory ==
    /\ now = 0
    /\ remoteCollections = {usersCollectionName}
    /\ remoteIndexed = remoteCollections
    /\ remoteLoaded \in SUBSET remoteCollections
    /\ metaRecords = << >>
    /\ collectionExistsCache =
         (usersCollectionName :> [exists |-> TRUE, timestamp |-> 0])
    /\ metadataCache = << >>
    /\ collectionsMetadataRecords = << >>
    /\ collectionsMetadataCache = << >>
    /\ lastIndex = 0
    /\ memoryUsers = << >>
    /\ proc = [p \in Procs |-> IdleProc]
    /\ nOps = 0
    /\ faults = 0

\* one caller that stores profiles and one that reads them
NextMemory ==
    \/ Tick
    \/ \E u \in UserIds, profile \in Profiles :
            StoreUserProfile("p1", u, profile)
    \/ \E u \in UserIds : GetUserProfile("p2", u)
    \/ \E p \in Procs :
        \/ SP_Embed(p)
        \/ SP_Loaded(p)
        \/ GP_Start(p)
        \/ GP_Loaded(p)
        \/ GP_Found(p)
        \/ ExistsStep(p)
        \/ EN_Start(p)
        \/ EN_Checked(p)
        \/ LoadInsertSearchStep(p)

SpecMemory == InitMemory /\ [][NextMemory]_vars

\* ------------------------------------------------------------ properties
\* two successive requests of one caller for the same collection
Successive(p, first, second) ==
    /\ Done(p, second)
    /\ proc[p].prev.op = first
    /\ proc[p].prev.name = proc[p].arg

\* the last attempt of collectionExists has failed and the catch block runs
GivesUp(p) ==
    /\ At(p, "ce_resp")
    /\ proc[p].resp = "fail"
    /\ proc[p].attempt = LastAttempt
    /\ proc'[p] # proc[p]

\* C1: after a successful ensureCollectionExists(name), the next
\* collectionExists(name) returns true, also within the cache TTL.
C1_ExistsAfterEnsure ==
    \A p \in Procs :
        ( /\ Successive(p, "ensureCollectionExists", "collectionExists")
          /\ proc[p].prev.err = "none"
          /\ proc[p].err = "none" )
        => proc[p].exists

\* C2: successive successful ensureCollectionExists(name) calls issue the
\* remote createCollection at most once.
C2_CreateIssuedOnce ==
    \A p \in Procs :
        ( /\ Successive(p, "ensureCollectionExists", "ensureCollectionExists")
          /\ proc[p].prev.err = "none"
          /\ proc[p].err = "none" )
        => proc[p].prev.creates + proc[p].creates <= 1

\* two successive collectionExists(name) calls, the first answered by the
\* database and cached, the second made within the TTL of that entry
TwoWithinTTL(p) ==
    /\ Successive(p, "collectionExists", "collectionExists")
    /\ proc[p].prev.wrote >= 0
    /\ proc[p].checkedAt - proc[p].prev.wrote < CACHE_TTL

\* C3 (as stated): two collectionExists(name) calls within the TTL window
\* issue exactly one remote hasCollection call in total.
C3_ExactlyOneRemoteCall ==
    \A p \in Procs :
        TwoWithinTTL(p) => proc[p].prev.calls + proc[p].calls = 1

\* C3 (amended): the second of two collectionExists(name) calls within the
\* TTL window issues no remote call and returns the cached answer of the
\* first; the first issues one hasCollection call per attempt, between 1 and
\* maxRetries.
C3_SecondFromCache ==
    \A p \in Procs :
        TwoWithinTTL(p) =>
            /\ proc[p].calls = 0
            /\ proc[p].err = "none"
            /\ proc[p].exists = proc[p].prev.exists
            /\ proc[p].prev.calls \in 1..maxRetries

C3_Witness ==
    \E p \in Procs :
        TwoWithinTTL(p) /\ proc[p].calls = 0 /\ proc[p].prev.calls = maxRetries

\* C4: when hasCollection fails on every attempt and nothing is cached for
\* the name, collectionExists raises, the cache still has no entry, and
\* ensureCollectionExists fails without issuing createCollection.
C4_NoEntryPropagates ==
    [][\A p \in Procs :
        /\ ( GivesUp(p) /\ proc[p].cname \notin DOMAIN collectionExistsCache )
           => /\ proc'[p].err = "check"
              /\ proc'[p].pc = Tail(proc[p].pc)
              /\ proc[p].cname \notin DOMAIN collectionExistsCache'
        /\ ( At(p, "en_checked") /\ proc[p].err = "check" /\ proc'[p] # proc[p] )
           => /\ proc'[p].err = "check"
              /\ proc'[p].pc = Tail(proc[p].pc)
              /\ proc'[p].creates = 0
              /\ remoteCollections' = remoteCollections
      ]_vars

C4_Witness ==
    \E p \in Procs :
        /\ Done(p, "ensureCollectionExists")
        /\ proc[p].err = "check"
        /\ proc[p].calls = maxRetries
        /\ proc[p].creates = 0
        /\ proc[p].arg \notin DOMAIN collectionExistsCache

\* C5: when hasCollection fails on every attempt and an entry of any age is
\* cached for the name, collectionExists returns the entry's value without
\* raising and leaves the entry unchanged.
C5_StaleEntryAnswers ==
    [][\A p \in Procs :
        ( GivesUp(p) /\ proc[p].cname \in DOMAIN collectionExistsCache )
        => /\ proc'[p].err = "none"
           /\ proc'[p].exists = collectionExistsCache[proc[p].cname].exists
           /\ proc'[p].pc = Tail(proc[p].pc)
           /\ collectionExistsCache' = collectionExistsCache
      ]_vars

C5_Witness ==
    \E p \in Procs :
        /\ Done(p, "collectionExists")
        /\ proc[p].resp = "fail"
        /\ proc[p].calls = maxRetries
        /\ proc[p].err = "none"
        /\ proc[p].arg \in DOMAIN collectionExistsCache
        /\ proc[p].exists = collectionExistsCache[proc[p].arg].exists
        /\ now - collectionExistsCache[proc[p].arg].timestamp >= CACHE_TTL

\* two requests of the same method for the same collection that overlapped
Concurrent(p, q) ==
    /\ p # q
    /\ proc[p].op = proc[q].op
    /\ proc[p].arg = proc[q].arg
    /\ (q \in proc[p].during \/ p \in proc[q].during)

\* C6: two concurrent ensureCollectionExists(name) calls for an absent name
\* both complete successfully: "collection already exists" is not surfaced.
C6_AlreadyExistsIsSuccess ==
    \A p, q \in Procs :
        ( /\ Concurrent(p, q)
          /\ Done(p, "ensureCollectionExists")
          /\ Done(q, "ensureCollectionExists") )
        => proc[p].err # "already_exists"

\* C7: when createCollection or createIndex fails during
\* ensureCollectionExists(name), the cache is left without an entry for the
\* name, and the cache never says exists = true of a collection that lacks
\* its index.
C7_FailedProvisionNotCached ==
    /\ \A p \in Procs :
        ( Done(p, "ensureCollectionExists") /\ proc[p].err \in {"create", "index"} )
        => proc[p].arg \notin DOMAIN collectionExistsCache
    /\ \A n \in DOMAIN collectionExistsCache :
        collectionExistsCache[n].exists => n \in remoteIndexed

\* the names the application reserves for its metadata collections
ReservedNames == {METADATA_COLLECTION, metadataCollectionName}

Names_Of(list) == {list[i].name : i \in DOMAIN list}

\* C8: listCollections never returns an entry for a reserved metadata
\* collection and never registers metadata for one, also not for the ones
\* the application's services provision at startup.
C8_ReservedNeverListed ==
    \A p \in Procs :
        Done(p, "listCollections") =>
            /\ Names_Of(proc[p].list) \cap ReservedNames = {}
            /\ Names_Of(metaRecords) \cap ReservedNames = {}

\* C9: listCollections returns exactly one metadata entry for every
\* collection the vector database reported, the manager's reserved
\* collection excepted, and every returned entry tagged auto-registered is
\* persisted in the reserved collection.
C9_OneEntryPerCollection ==
    \A p \in Procs :
        Done(p, "listCollections") =>
            LET list == proc[p].list
                expected == proc[p].listed \ {METADATA_COLLECTION}
            IN /\ Names_Of(list) = expected
               /\ Len(list) = Cardinality(expected)
               /\ \A i \in DOMAIN list :
                    list[i].tags = "auto-registered" =>
                        \E j \in DOMAIN metaRecords : metaRecords[j] = list[i]

\* C10: after deleteCollection(name), whether it returned or failed part-way,
\* it is never the case that the collection has been dropped while a metadata
\* record or a metadata cache entry for it remains.
C10_NoOrphanedMetadata ==
    \A p \in Procs :
        ( /\ Done(p, "deleteCollection")
          /\ proc[p].err # "drop"
          /\ proc[p].arg \notin remoteCollections )
        => /\ Matching(metaRecords, proc[p].arg) = {}
           /\ proc[p].arg \notin DOMAIN metadataCache

\* a delete of the collection, by the manager or by the DELETE handler, has
\* completed and the collection has not been created again
Deleted_Done(p) ==
    /\ Done(p, "deleteCollection") \/ Done(p, "deleteCollectionHandler")
    /\ proc[p].err = "none"
    /\ proc[p].arg \notin remoteCollections

\* C11: after a delete of a collection completes, no existence-cache entry
\* with exists = true for it survives (so collectionExists answers false),
\* also when a collectionExists call is in flight during the delete.
C11_NoTrueEntryAfterDelete ==
    \A p \in Procs :
        Deleted_Done(p) =>
            ~ ( /\ proc[p].arg \in DOMAIN collectionExistsCache
                /\ collectionExistsCache[proc[p].arg].exists )

\* C12: the reserved collection never holds two records with the same
\* collection name, and none for a collection that a completed
\* deleteCollection removed.
C12_OneRecordPerCollection ==
    /\ \A i, j \in DOMAIN metaRecords :
        metaRecords[i].name = metaRecords[j].name => i = j
    /\ \A p \in Procs :
        Deleted_Done(p) => Matching(metaRecords, proc[p].arg) = {}

\* C13: after updateCollectionMetadata(name, updates), for any payload, the
\* metadata cached under name and the record stored by the call have
\* name = name and the vectorDim fixed at creation.
C13_NameAndVectorDimFixed ==
    \A p \in Procs :
        ( Done(p, "updateCollectionMetadata") /\ proc[p].err = "none" ) =>
            LET n == proc[p].arg
            IN /\ n \in DOMAIN metadataCache
               /\ metadataCache[n].name = n
               /\ metadataCache[n].vectorDim = VECTOR_DIM
               /\ proc[p].doc.name = n
               /\ proc[p].doc.vectorDim = VECTOR_DIM
               /\ \E i \in DOMAIN metaRecords : metaRecords[i] = proc[p].doc

\* C14: the status that getCollectionMetadata reports of a collection is
\* 'loaded' after a successful loadCollection / ensureCollectionLoaded and
\* 'unloaded' after a successful unloadCollection.
C14_StatusFollowsLoad ==
    \A p \in Procs :
        ( /\ Done(p, "getCollectionMetadata")
          /\ proc[p].prev.op \in
                {"loadCollection", "ensureCollectionLoaded", "unloadCollection"}
          /\ proc[p].prev.name = proc[p].arg
          /\ proc[p].prev.err = "none"
          /\ proc[p].meta # NoMeta )
        => ( proc[p].meta.status = "loaded"
               <=> proc[p].prev.op # "unloadCollection" )

\* C15: after deleteCollectionMetadata(name) has completed, the next
\* getCollectionMetadata(name) returns null, also when the lookup goes to the
\* reserved collection because the cache has no entry.
C15_NullAfterDelete ==
    \A p \in Procs :
        Successive(p, "deleteCollectionMetadata",
                      "collectionsMetadata.getCollectionMetadata")
        => proc[p].meta = NoMeta

\* a pass of the loop of chunkByCharCount after which the loop goes on
\* with another pass
NextPassOfLoop(p) ==
    /\ At(p, "cb_loop")
    /\ proc'[p] # proc[p]
    /\ proc'[p].pc = proc[p].pc
    /\ proc'[p].ck.startIndex < Len(proc[p].ck.text)

\* C16: for chunkSize > overlap >= 0 the startIndex used by successive
\* passes of the loop of chunkByCharCount is strictly increasing (so the
\* call terminates).
C16_StartIndexIncreases ==
    [][\A p \in Procs :
        ( /\ NextPassOfLoop(p)
          /\ proc[p].ck.chunkSize > proc[p].ck.overlap )
        => proc'[p].ck.startIndex > proc[p].ck.startIndex
      ]_vars

\* the chunk texts put together again, the leading overlap characters of
\* every chunk but the first removed
RECURSIVE Reconstructed(_, _)
Reconstructed(chunks, overlap) ==
    IF chunks = << >> THEN << >>
    ELSE IF Len(chunks) = 1 THEN chunks[1].text
    ELSE Reconstructed(SubSeq(chunks, 1, Len(chunks) - 1), overlap)
         \o SubSeq(chunks[Len(chunks)].text, overlap + 1,
                   Len(chunks[Len(chunks)].text))

\* C17: for overlap < chunkSize the chunks returned by chunkText
\* reconstruct the text.
C17_ChunksReconstructText ==
    \A p \in Procs :
        ( Done(p, "chunkText") /\ proc[p].ck.overlap < proc[p].ck.chunkSize )
        => Reconstructed(proc[p].ck.chunks, proc[p].ck.overlap) = proc[p].ck.text

\* C18: called with overlap >= chunkSize, chunkByCharCount still advances
\* its startIndex with every pass of the loop, as it would with the overlap
\* clamped below chunkSize (so the call terminates).
C18_OverlapClamped ==
    [][\A p \in Procs :
        ( /\ NextPassOfLoop(p)
          /\ proc[p].ck.overlap >= proc[p].ck.chunkSize )
        => proc'[p].ck.startIndex > proc[p].ck.startIndex
      ]_vars

\* what the searches of the collections in list return, one after the other
RECURSIVE MergedHits(_, _)
MergedHits(list, limit) ==
    IF list = << >> THEN << >>
    ELSE SearchHits(Head(list), limit) \o MergedHits(Tail(list), limit)

Elements(seq) == {seq[i] : i \in DOMAIN seq}

Count(seq, x) == Cardinality({i \in DOMAIN seq : seq[i] = x})

\* the number of results with a score above s
Above(seq, s) == Cardinality({i \in DOMAIN seq : seq[i].score > s})

QueryDone(p) == Done(p, "queryMultipleCollections")

\* C19: no failure of a load or a search ends queryMultipleCollections: every
\* collection is either searched or skipped, and the response is built from
\* the results of the collections that were searched.
C19_FailingCollectionsSkipped ==
    \A p \in Procs :
        QueryDone(p) =>
            LET c == proc[p].q
            IN /\ proc[p].err \in {"none", "embedding", "generate"}
               /\ proc[p].err = "none" =>
                    /\ Len(c.searched) + Len(c.skipped) = Len(c.collections)
                    /\ c.allResults = MergedHits(c.searched, c.topKPerCollection)
                    /\ \A x \in Elements(c.sources) :
                         x.collection \in Elements(c.searched)

C19_Witness ==
    \E p \in Procs :
        /\ QueryDone(p)
        /\ proc[p].err = "none"
        /\ proc[p].q.skipped # << >>
        /\ proc[p].q.searched # << >>
        /\ proc[p].q.sources # << >>

\* C20: the sources are the defaultTopK highest-scoring results of the merged
\* results of the searched collections, in non-increasing order of score,
\* whatever the order in which the collections were searched.
C20_TopKByScore ==
    \A p \in Procs :
        ( QueryDone(p) /\ proc[p].err = "none" ) =>
            LET c == proc[p].q
                merged == MergedHits(c.searched, c.topKPerCollection)
                src == c.sources
            IN /\ Len(src) = Min(c.defaultTopK, Len(merged))
               /\ \A i, j \in DOMAIN src : i < j => src[i].score >= src[j].score
               /\ \A x \in Elements(src) : Count(src, x) <= Count(merged, x)
               /\ \A x \in Elements(merged) :
                    Above(src, x.score) = Min(c.defaultTopK, Above(merged, x.score))

C20_Witness ==
    \E p \in Procs :
        LET c == proc[p].q
            merged == MergedHits(c.searched, c.topKPerCollection)
        IN /\ QueryDone(p)
           /\ proc[p].err = "none"
           /\ Len(merged) > c.defaultTopK
           /\ \E i \in DOMAIN merged : merged[i].score > merged[1].score
           /\ \E x, y \in Elements(c.sources) : x.collection # y.collection

\* ------------------------------------------------------------- reranker
RerankDone(p, strategy) == Done(p, strategy)

\* out is a subsequence of list: its elements are elements of list at
\* increasing positions
IsSubsequence(out, list) ==
    \E f \in [DOMAIN out -> DOMAIN list] :
        /\ \A i \in DOMAIN out : list[f[i]] = out[i]
        /\ \A i, j \in DOMAIN out : i < j => f[i] < f[j]

\* two passages that both have an embedding, and these are more similar than
\* the threshold
TooSimilar(a, b, threshold) ==
    /\ HasEmbedding(a)
    /\ HasEmbedding(b)
    /\ FracLess(threshold,
                CosineSimilarity(EmbeddingOrEmpty(a), EmbeddingOrEmpty(b)))

\* C23: diversityRerank never returns two passages whose embeddings are more
\* similar than the threshold; what it returns is a subsequence of its input,
\* of at most topK passages
C23_DiverseSubsequence ==
    \A p \in Procs :
        RerankDone(p, "diversityRerank") =>
            LET rr == proc[p].rr
            IN /\ \A i, j \in DOMAIN rr.returned :
                    i # j => ~ TooSimilar(rr.returned[i], rr.returned[j],
                                          rr.similarityThreshold)
               /\ IsSubsequence(rr.returned, rr.results)
               /\ Len(rr.returned) <= rr.topK

\* a call that returned two passages after it dropped the one between them,
\* which is too similar to the first
C23_Witness ==
    \E p \in Procs :
        /\ RerankDone(p, "diversityRerank")
        /\ LET rr == proc[p].rr
           IN /\ Len(rr.results) = 3
              /\ rr.returned = << rr.results[1], rr.results[3] >>
              /\ TooSimilar(rr.results[1], rr.results[2],
                            rr.similarityThreshold)
              /\ HasEmbedding(rr.results[3])

\* C24: a strategy whose embedding call failed does not raise and returns
\* the first topK candidates of its input, in their order
C24_FailureGivesFirstTopK ==
    \A p \in Procs :
        (Idle(p) /\ proc[p].rr.threw) =>
            LET rr == proc[p].rr
            IN /\ proc[p].err = "none"
               /\ Len(rr.returned) = Min(rr.topK, Len(rr.results))
               /\ \A i \in DOMAIN rr.returned : rr.returned[i] = rr.results[i]

\* hybridRerank fell back to the first topK of more candidates than that
C24_Witness ==
    \E p \in Procs :
        /\ RerankDone(p, "hybridRerank")
        /\ proc[p].rr.threw
        /\ proc[p].rr.topK >= 1
        /\ Len(proc[p].rr.results) > proc[p].rr.topK
        /\ Len(proc[p].rr.returned) = proc[p].rr.topK

Strategies == {"rerank", "semanticRerank", "hybridRerank", "diversityRerank"}

\* C25: every strategy returns at most topK elements, each an element of the
\* input that occurs no more often than in the input
C25_AtMostTopKOfInput ==
    \A p \in Procs :
        (Idle(p) /\ proc[p].op \in Strategies) =>
            LET rr == proc[p].rr
            IN /\ Len(rr.returned) <= rr.topK
               /\ \A i \in DOMAIN rr.returned :
                    /\ \E j \in DOMAIN rr.results : rr.results[j] = rr.returned[i]
                    /\ Count(rr.returned, rr.returned[i])
                         <= Count(rr.results, rr.returned[i])

\* hybridRerank ranked more candidates than topK and returned topK of them,
\* not the first ones
C25_Witness ==
    \E p \in Procs :
        /\ RerankDone(p, "hybridRerank")
        /\ ~ proc[p].rr.threw
        /\ proc[p].rr.topK >= 1
        /\ Len(proc[p].rr.results) > proc[p].rr.topK
        /\ Len(proc[p].rr.returned) = proc[p].rr.topK
        /\ proc[p].rr.returned # SliceTo(proc[p].rr.results, proc[p].rr.topK)

\* the score of a candidate as the Lexical strategy and the cosine similarity
\* give it
LexicalAndSemantic(rr, result) ==
    FracAdd(FracMul(CalculateRelevance(rr.query, result.text),
                    rr.keywordWeight),
            FracMul(CosineSimilarity(rr.queryEmbedding,
                                     EmbeddingOrEmpty(result)),
                    rr.semanticWeight))

\* C26: hybridRerank ranks by keywordWeight * lexical + semanticWeight *
\* semantic, lexical being the score of the Lexical strategy (with its length
\* bonus)
C26_HybridUsesLexicalScore ==
    \A p \in Procs :
        (RerankDone(p, "hybridRerank") /\ ~ proc[p].rr.threw
           /\ proc[p].rr.results # << >>) =>
            LET rr == proc[p].rr
                score(result) == LexicalAndSemantic(rr, result)
            IN rr.returned = Ranked(rr.results, score, rr.topK)

\* ---------------------------------------------------------- buildContext
\* the total length of the texts of the first k results
RECURSIVE PrefixLength(_, _)
PrefixLength(results, k) ==
    IF k = 0 THEN 0 ELSE Len(results[k].text) + PrefixLength(results, k - 1)

\* the length of the longest prefix within the budget, and 1 when even the
\* first passage is over it
BudgetPrefix(results, maxChars) ==
    LET within == {k \in 1..Len(results) :
                     PrefixLength(results, k) <= maxChars}
    IN IF within = {} THEN 1
       ELSE CHOOSE k \in within : \A j \in within : j <= k

\* C27: buildContext returns the texts of the longest prefix of the results
\* whose total length is within maxChars, and of the first result when that
\* alone is over the budget; it is empty only for an empty list
C27_LongestPrefixWithinBudget ==
    \A p \in Procs :
        Done(p, "buildContext") =>
            LET results == proc[p].q.searchResults
                chunks == proc[p].q.contextChunks
            IN IF results = << >> THEN chunks = << >>
               ELSE /\ Len(chunks) = BudgetPrefix(results,
                                                  proc[p].q.maxContextLength)
                    /\ \A i \in DOMAIN chunks : chunks[i] = results[i].text

\* a first passage over the budget is returned alone, although the empty
\* passage behind it adds nothing to the length
C27_Witness ==
    \E p \in Procs :
        /\ Done(p, "buildContext")
        /\ LET results == proc[p].q.searchResults
           IN /\ Len(results) >= 2
              /\ Len(results[1].text) > proc[p].q.maxContextLength
              /\ Len(results[2].text) = 0
              /\ proc[p].q.contextChunks = << results[1].text >>

\* ------------------------------------------------------------- query path
\* stage a is among the calls made before the i-th
Before(stages, a, i) == \E j \in 1..(i - 1) : stages[j] = a

\* C21: the completion call is issued after the reranker has run, and the
\* chunks handed to it are built from the reranker's output
C21_RerankBeforeCompletion ==
    \A p \in Procs :
        \A i \in DOMAIN proc[p].q.stages :
            proc[p].q.stages[i] = "completion" =>
                Before(proc[p].q.stages, "rerank", i)

\* C22: no embedding, search or completion call is made for a question
\* before validateInput has returned a valid verdict for it
C22_ValidatedBeforeCalls ==
    \A p \in Procs :
        \A i \in DOMAIN proc[p].q.stages :
            proc[p].q.stages[i] \in {"embedding", "search", "completion"} =>
                /\ Before(proc[p].q.stages, "validateInput", i)
                /\ ValidateInput(proc[p].q.question)

C30_DimensionCheckedBeforeInsert ==
    \A p \in Procs :
        (proc[p].op = "insertDocuments" /\ proc[p].inserts > 0) =>
            proc[p].embedding = EMBEDDING_DIM

\* --------------------------------------------------------------- ingestion
IngestionDone(p) == Done(p, "handleDocumentIngestion")

\* C29: a failure while a document is ingested stays inside
\* handleDocumentIngestion: the handler ends without error with the document
\* stored or skipped, so the consumer goes on, and a handler that starts
\* after another one skipped its document runs to its end as well
C29_FailureStaysInHandler ==
    /\ ~ Raised
    /\ \A p \in Procs :
        IngestionDone(p) =>
            /\ proc[p].err = "none"
            /\ proc[p].ingest \in {"stored", "skipped"}
            /\ proc[p].ingest = "stored" => proc[p].inserts > 0

\* the document of one message was skipped after a failure, and the document
\* of the message handled after it is stored
C29_Witness ==
    \E p, q \in Procs :
        /\ p # q
        /\ IngestionDone(p)
        /\ proc[p].ingest = "skipped"
        /\ IngestionDone(q)
        /\ p \in proc[q].after
        /\ proc[q].ingest = "stored"

\* C31: a search leaves the remote set of collections unchanged: no step of
\* MilvusService.search, whatever the collection and whether it exists or
\* not, creates a collection in the vector database
C31_SearchCreatesNothing ==
    [][(\E p \in Procs :
            /\ proc[p].pc # << >>
            /\ proc[p].op = "search"
            /\ proc'[p] # proc[p])
        => remoteCollections' = remoteCollections]_vars

\* C32: every client.search, client.insert and client.upsert that
\* MilvusService issues comes after ensureCollectionLoaded has returned for
\* the same collection in the same operation
C32_LoadedBeforeDataCall ==
    [][\A p \in Procs :
        (\/ proc'[p].searches > proc[p].searches
         \/ proc'[p].inserts > proc[p].inserts
         \/ proc'[p].upserts > proc[p].upserts)
        => proc[p].cname \in proc[p].loaded]_vars

\* an upsert was sent and answered for a collection that another caller
\* unloads
C32_Witness ==
    \E p, q \in Procs :
        /\ Idle(p)
        /\ proc[p].op = "upsertDocuments"
        /\ proc[p].upserts > 0
        /\ proc[p].err = "none"
        /\ proc[p].cname \in proc[p].loaded
        /\ Idle(q)
        /\ proc[q].op = "unloadCollection"
        /\ proc[q].err = "none"

\* C33: every chunk chunkText returns has startIndex < endIndex, a chunkIndex
\* equal to its 0-based position in the returned list, and totalChunks equal
\* to the number of chunks returned
C33_ChunkInvariant ==
    \A p \in Procs :
        Done(p, "chunkText") =>
            LET chunks == proc[p].ck.chunks
            IN \A i \in DOMAIN chunks :
                /\ chunks[i].startIndex < chunks[i].endIndex
                /\ chunks[i].chunkIndex = i - 1
                /\ chunks[i].totalChunks = Len(chunks)

\* chunkText has returned three chunks or more, the first of which were
\* stamped with totalChunks 0 when they were pushed
C33_Witness ==
    \E p \in Procs :
        /\ Done(p, "chunkText")
        /\ Len(proc[p].ck.chunks) >= 3

\* C40: the offsets of the chunks chunkText returns for overlap < chunkSize
\* lie inside the text, 0 <= startIndex <= endIndex <= text.length, and
\* startIndex does not decrease from one chunk to the next
C40_OffsetsInsideText ==
    \A p \in Procs :
        ( Done(p, "chunkText") /\ proc[p].ck.overlap < proc[p].ck.chunkSize )
        => LET chunks == proc[p].ck.chunks
           IN /\ \A i \in DOMAIN chunks :
                    /\ 0 <= chunks[i].startIndex
                    /\ chunks[i].startIndex <= chunks[i].endIndex
                    /\ chunks[i].endIndex <= Len(proc[p].ck.text)
              /\ \A i \in 1..(Len(chunks) - 1) :
                    chunks[i].startIndex <= chunks[i + 1].startIndex

\* C37: for 0 <= overlap < chunkSize the chunks chunkByCharCount returns
\* cover the text: the first chunk starts at index 0 and every index of the
\* text lies in [startIndex, endIndex) of a returned chunk
C37_ChunksCoverText ==
    \A p \in Procs :
        ( Done(p, "chunkByCharCount")
          /\ proc[p].ck.overlap < proc[p].ck.chunkSize )
        => LET chunks == proc[p].ck.chunks
           IN /\ chunks # << >> => chunks[1].startIndex = 0
              /\ \A k \in 0..(Len(proc[p].ck.text) - 1) :
                    \E i \in DOMAIN chunks :
                        /\ chunks[i].startIndex <= k
                        /\ k < chunks[i].endIndex

\* withRetryAndTimeout has ended
RetryEnded(p) == Done(p, "withRetryAndTimeout")

\* what a call of withRetryAndTimeout that has ended did: fn was called at
\* most maxRetries times; a returned value is that of the first call of fn
\* that resolved in time, which was the last call made; a throw comes after
\* maxRetries failed calls with the error of the last one; and the k-th
\* failed call (from 0) that was followed by another was followed by a wait
\* of initialDelayMs * 2^k
RetryOutcome(p) ==
    LET w == proc[p].wr
        n == Len(w.outcomes)
    IN /\ n <= w.maxRetries
       /\ \A k \in 1..(n - 1) : w.outcomes[k] # "resolved"
       /\ w.waited = [k \in 1..(n - 1) |-> w.initialDelayMs * Pow2(k - 1)]
       /\ \/ /\ w.ended = "returned"
             /\ w.outcomes[n] = "resolved"
             /\ w.value = ValueOf(n - 1)
          \/ /\ w.ended = "thrown"
             /\ n = w.maxRetries
             /\ w.outcomes[n] # "resolved"
             /\ w.lastError = [kind |-> w.outcomes[n], attempt |-> n - 1]
             /\ proc[p].err = w.outcomes[n]

\* C34: withRetryAndTimeout with maxRetries >= 1 calls fn at most maxRetries
\* times, returns the value of the first attempt that succeeds in time
\* without a further attempt, waits initialDelayMs * 2^k after failed attempt
\* k before the next, throws the last error after maxRetries failed or
\* timed-out attempts, and ends even when fn never settles
C34_BoundedRetries ==
    /\ [](\A p \in Procs : RetryEnded(p) => RetryOutcome(p))
    /\ <>(\A p \in Procs : proc[p].op = "withRetryAndTimeout" => RetryEnded(p))

\* every one of three attempts timed out (fn never settled): the last error
\* was thrown after waits of 500 and 1000 ms
C34_Witness ==
    \E p \in Procs :
        /\ RetryEnded(p)
        /\ proc[p].wr.ended = "thrown"
        /\ proc[p].wr.outcomes = << "timeout", "timeout", "timeout" >>
        /\ proc[p].wr.waited = << 500, 1000 >>

\* the record written last among those the filter on key selects
LatestRecord(records, key) ==
    records[CHOOSE i \in Matching(records, key) :
                \A j \in Matching(records, key) : j <= i]

\* C35: a getCollectionMetadata(name) that follows a successful
\* updateCollectionMetadata(name, updates) and, the cache having been
\* cleared, looks the metadata up in the reserved collection, returns the
\* record written last for name (no remote call having failed)
C35_LookupReturnsLatest ==
    \A p \in Procs :
        ( /\ Done(p, "getCollectionMetadata")
          /\ proc[p].prev.op = "updateCollectionMetadata"
          /\ proc[p].prev.name = proc[p].arg
          /\ proc[p].prev.err = "none"
          /\ proc[p].searches > 0
          /\ faults = 0 )
        => /\ Matching(metaRecords, proc[p].arg) # {}
           /\ proc[p].meta = LatestRecord(metaRecords, proc[p].arg)

\* C36: listCollections auto-registers a collection only when it has no
\* metadata record: no 'auto-registered' record is written for a name that
\* has a record already, and the cached metadata of a collection with a
\* record of its own is never the auto-registered one
C36_AutoRegisterOnlyUnregistered ==
    /\ \A j \in DOMAIN metaRecords :
          metaRecords[j] = AutoRegistered(metaRecords[j].name)
          => \A i \in 1..(j - 1) : metaRecords[i].name # metaRecords[j].name
    /\ \A n \in DOMAIN metadataCache :
          metadataCache[n] = AutoRegistered(n)
          => \A i \in Matching(metaRecords, n) :
                metaRecords[i] = AutoRegistered(n)

\* C38: validateInput without a userId is a function of the query: two
\* calls with the same query give the same verdict, whatever was validated
\* before and between them
C38_VerdictDependsOnQueryOnly ==
    \A p, q \in Procs :
        ( /\ Done(p, "validateInput")
          /\ Done(q, "validateInput")
          /\ proc[p].q.question = proc[q].q.question )
        => /\ proc[p].err = proc[q].err
           /\ proc[p].list = proc[q].list

\* C39: the record storeUserProfile(userId, profile) stores has the userId
\* attribute userId and the type attribute 'user_profile' whatever the keys
\* of profile, and getUserProfile(u) returns no record that
\* storeUserProfile wrote for another user id
C39_ProfileKeyedByUserId ==
    /\ \A p \in Procs :
        ( Done(p, "storeUserProfile") /\ proc[p].inserts > 0 )
        => /\ proc[p].doc.userId = proc[p].arg
           /\ proc[p].doc.type = "user_profile"
    /\ \A p, q \in Procs :
        ( /\ Done(p, "storeUserProfile")
          /\ proc[p].err = "none"
          /\ Done(q, "getUserProfile")
          /\ proc[q].searches > 0
          /\ proc[q].meta = proc[p].doc )
        => proc[p].arg = proc[q].arg

====
